---- MODULE Spec2Model ----
(***************************************************************************)
(* Model of polymarket_analyzer.py: the FIFO ledger                        *)
(* calculate_fifo_pnl_with_resolution and the resolver                     *)
(* fetch_market_resolution it calls.                                       *)
(*                                                                         *)
(* Numbers are fixed point.  A size is counted in hundredths of a share,   *)
(* a price in cents, so money (size x price) is counted in 1/10000 dollar. *)
(* Python's None is the string "None".                                     *)
(***************************************************************************)
EXTENDS Integers, Sequences, FiniteSets, TLC

\* ------------------------------------------------------------- bounds
\* Longest single-group trade history replayed.
MaxTrades == 3
\* Longest multi-group trade history (rows with free timestamps).
MaxRows == 2

\* ------------------------------------------------------------- constants
\* 0.01 share, the materiality threshold of line 683, in size units.
DUST == 1
\* The $1 payout of a winning share (line 708), in price units.
PAYOUT == 100

None == "None"

\* ------------------------------------------------------------- input domain
Sides == {"BUY", "SELL"}

\* (side, size, price) of the replayed histories: 10 or 15 shares, bought
\* at 0.40 or 0.60 dollars, sold at 0.40 or 0.70 dollars.
ReplayPayloads ==
    [side : {"BUY"}, size : {1000, 1500}, price : {40, 60}]
    \cup [side : {"SELL"}, size : {1000, 1500}, price : {40, 70}]

\* (side, size) of the multi-group histories: 0.01 and 10 shares.
GroupPayloads == [side : Sides, size : {1, 1000}]

\* The price every trade of the multi-group histories is made at: 0.40
\* dollars at time 1, 0.70 dollars at time 2.
PriceAt(ts) == IF ts = 1 THEN 40 ELSE 70

\* (market, asset) of a single-group history.
ReplayKeys == {<<"m2", "111">>, <<"unknown", "Yes">>}

\* (market, asset) of the multi-group histories: two tokens of one market.
GroupKeys == {<<"m1", "YES">>, <<"m1", "no">>}

Timestamps == {1, 2}

Row(key, p, ts) ==
    [market |-> key[1], asset |-> key[2], side |-> p.side,
     size |-> p.size, price |-> p.price, timestamp |-> ts]

\* Histories of one group, in chronological order, timestamps distinct.
ReplayInputs ==
    UNION { { [i \in 1..n |-> Row(key, p[i], i)] :
                p \in [1..n -> ReplayPayloads], key \in ReplayKeys } :
            n \in 1..MaxTrades }

\* Histories over two groups, any arrival order, timestamps may tie.
GroupInputs ==
    UNION { { [i \in 1..n |->
                  Row(k[i], [side |-> p[i].side, size |-> p[i].size,
                             price |-> PriceAt(t[i])], t[i])] :
                k \in [1..n -> GroupKeys], p \in [1..n -> GroupPayloads],
                t \in [1..n -> Timestamps] } :
            n \in 1..MaxRows }

\* ------------------------------------------------------------- strings
\* str.upper() on the strings of the model.
Upper(s) ==
    CASE s = "Yes" -> "YES"
      [] s = "yes" -> "YES"
      [] s = "No" -> "NO"
      [] s = "no" -> "NO"
      [] s = "unknown" -> "UNKNOWN"
      [] s = "buy" -> "BUY"
      [] s = "Sell" -> "SELL"
      [] OTHER -> s

\* _determine_token_type
DetermineTokenType(asset_id) ==
    IF asset_id = None \/ asset_id = "" \/ asset_id = "unknown" THEN "UNKNOWN"
    ELSE IF Upper(asset_id) \in {"YES", "TRUE", "1"} THEN "YES"
    ELSE IF Upper(asset_id) \in {"NO", "FALSE", "0"} THEN "NO"
    ELSE "UNKNOWN"

\* ------------------------------------------------------------- grouping
\* All group keys in the order groupby(['market', 'asset']) yields them
\* (sorted by market, then asset; upper case sorts before lower case).
KeyOrder == << <<"m1", "YES">>, <<"m1", "no">>, <<"m2", "111">>,
               <<"m3", "No">>, <<"unknown", "Yes">> >>

RowKey(r) == <<r.market, r.asset>>

\* The keys of the groups of df, in groupby order.
GroupBy(df) ==
    SelectSeq(KeyOrder, LAMBDA k : \E i \in DOMAIN df : RowKey(df[i]) = k)

\* Index labels of the rows of one group, in arrival order.
RECURSIVE GroupIndex(_, _, _)
GroupIndex(df, key, i) ==
    IF i > Len(df) THEN <<>>
    ELSE (IF RowKey(df[i]) = key THEN <<i>> ELSE <<>>)
         \o GroupIndex(df, key, i + 1)

Range(s) == { s[i] : i \in DOMAIN s }

Ascending(df, order) ==
    \A i \in 1..(Len(order) - 1) :
        df[order[i]].timestamp <= df[order[i + 1]].timestamp

\* group.sort_values('timestamp') with pandas' default kind='quicksort',
\* which is not a stable sort: every ascending arrangement of the group's
\* rows is a possible result.
SortValues(df, index) ==
    { order \in [1..Len(index) -> Range(index)] :
        Range(order) = Range(index) /\ Ascending(df, order) }

\* ------------------------------------------------------------- sums
RECURSIVE QueueShares(_)
QueueShares(q) == IF q = <<>> THEN 0 ELSE Head(q).size + QueueShares(Tail(q))

RECURSIVE QueueCost(_)
QueueCost(q) ==
    IF q = <<>> THEN 0 ELSE Head(q).size * Head(q).price + QueueCost(Tail(q))

\* ------------------------------------------------------------- sell matching
\* Variants of the SELL loop with one slip each.
\* The partial close is taken without comparing the lot with the volume.
ConsumeLotsUnchecked(queue, sell_remaining, sell_cost) ==
    IF sell_remaining > 0 /\ queue # <<>>
    THEN [queue |-> <<[size |-> Head(queue).size - sell_remaining,
                       price |-> Head(queue).price]>> \o Tail(queue),
          sell_remaining |-> 0,
          sell_cost |-> sell_cost + sell_remaining * Head(queue).price]
    ELSE [queue |-> queue, sell_remaining |-> sell_remaining,
          sell_cost |-> sell_cost]

\* The partial close pops the lot instead of splitting it.
RECURSIVE ConsumeLotsPopsPartial(_, _, _)
ConsumeLotsPopsPartial(queue, sell_remaining, sell_cost) ==
    IF sell_remaining > 0 /\ queue # <<>>
    THEN LET lot == Head(queue) IN
         IF lot.size <= sell_remaining
         THEN ConsumeLotsPopsPartial(Tail(queue), sell_remaining - lot.size,
                                     sell_cost + lot.size * lot.price)
         ELSE [queue |-> Tail(queue), sell_remaining |-> 0,
               sell_cost |-> sell_cost + sell_remaining * lot.price]
    ELSE [queue |-> queue, sell_remaining |-> sell_remaining,
          sell_cost |-> sell_cost]

\* The newest lot is matched first (LIFO).
RECURSIVE ConsumeLotsNewestFirst(_, _, _)
ConsumeLotsNewestFirst(queue, sell_remaining, sell_cost) ==
    IF sell_remaining > 0 /\ queue # <<>>
    THEN LET lot == queue[Len(queue)]
             rest == SubSeq(queue, 1, Len(queue) - 1) IN
         IF lot.size <= sell_remaining
         THEN ConsumeLotsNewestFirst(rest, sell_remaining - lot.size,
                                     sell_cost + lot.size * lot.price)
         ELSE [queue |-> Append(rest, [size |-> lot.size - sell_remaining,
                                       price |-> lot.price]),
               sell_remaining |-> 0,
               sell_cost |-> sell_cost + sell_remaining * lot.price]
    ELSE [queue |-> queue, sell_remaining |-> sell_remaining,
          sell_cost |-> sell_cost]

\* The partial close charges the whole lot.
RECURSIVE ConsumeLotsChargesLot(_, _, _)
ConsumeLotsChargesLot(queue, sell_remaining, sell_cost) ==
    IF sell_remaining > 0 /\ queue # <<>>
    THEN LET lot == Head(queue) IN
         IF lot.size <= sell_remaining
         THEN ConsumeLotsChargesLot(Tail(queue), sell_remaining - lot.size,
                                    sell_cost + lot.size * lot.price)
         ELSE [queue |-> <<[size |-> lot.size - sell_remaining,
                            price |-> lot.price]>> \o Tail(queue),
               sell_remaining |-> 0,
               sell_cost |-> sell_cost + lot.size * lot.price]
    ELSE [queue |-> queue, sell_remaining |-> sell_remaining,
          sell_cost |-> sell_cost]

\* The while loop of a SELL.
RECURSIVE ConsumeLots(_, _, _)
ConsumeLots(queue, sell_remaining, sell_cost) ==
    IF sell_remaining > 0 /\ queue # <<>>
    THEN LET lot == Head(queue) IN
         IF lot.size <= sell_remaining
         THEN ConsumeLots(Tail(queue), sell_remaining - lot.size,
                          sell_cost + lot.size * lot.price)
         ELSE ConsumeLots(
                  <<[size |-> lot.size - sell_remaining, price |-> lot.price]>>
                      \o Tail(queue),
                  0, sell_cost + sell_remaining * lot.price)
    ELSE [queue |-> queue, sell_remaining |-> sell_remaining,
          sell_cost |-> sell_cost]

\* ------------------------------------------------------------- state
VARIABLES
    trades_df,          \* the DataFrame of normalized trades (input)
    resolution_cache,   \* _resolution_cache: market -> (status, winner)
    pc,                 \* position in calculate_fifo_pnl_with_resolution
    groups,             \* list(trades_df.groupby(...)): the group keys
    idx,                \* number of groups finished
    trades,             \* index labels of the current group, sorted
    pos,                \* rows of the current group replayed
    position_queue,     \* FIFO queue of lots [size, price]
    realized_pnl,
    total_volume,
    sell_remaining,     \* of the last SELL replayed
    sell_revenue,
    sell_cost,
    remaining_shares,
    remaining_cost,
    unrealized_pnl,
    position_status,
    resolution,         \* (resolution_status, winning_asset) of the call
    resolution_checks_done,
    resolution_stats,
    current_positions,
    market_results,
    received,           \* what the call sites of the resolver were handed
    parked,             \* the resolver calls of the threads not running
    raw,                \* normalize_trade: the record handed in
    returned,           \* normalize_trade: how the call ended
    raw_trades,         \* analyze_trader: the `trades` handed in
    now,                \* analyze_trader: what time.time() reads
    normalized,         \* analyze_trader: the valid trades
    filtered,           \* analyze_trader: the filter that returned None
    metrics,            \* analyze_trader: how the call ended
    completed,          \* the analyze_trader calls that ended earlier
    profile,            \* recommend_copy_strategy: metrics and balance
    rec,                \* recommend_copy_strategy: the recommendation
    retries,            \* api_get: the attempts allowed
    attempt,            \* api_get: requests made so far
    response,           \* api_get: how the last request ended
    slept,              \* api_get: the seconds of time.sleep so far
    api_result          \* api_get: how the call ended

callers == <<received, parked>>
record == <<raw, returned>>
trader == <<raw_trades, now, normalized, filtered, metrics>>

\* The state of the process beyond one analysis: the earlier analyses, a
\* recommend_copy_strategy call and an api_get call.
beyond ==
    <<completed, profile, rec, retries, attempt, response, slept, api_result>>

\* The state outside calculate_fifo_pnl_with_resolution.
outside == <<callers, record, trader, beyond>>

vars == <<outside, trades_df, resolution_cache, pc, groups, idx, trades, pos,
          position_queue, realized_pnl, total_volume, sell_remaining,
          sell_revenue, sell_cost, remaining_shares, remaining_cost,
          unrealized_pnl, position_status, resolution,
          resolution_checks_done, resolution_stats, current_positions,
          market_results>>

ledger == <<position_queue, realized_pnl, total_volume, sell_remaining,
            sell_revenue, sell_cost>>
valuation == <<remaining_shares, remaining_cost, unrealized_pnl,
               position_status>>
outputs == <<resolution_stats, current_positions, market_results>>

NoResolution == [status |-> None, winner |-> None]

\* One analysis, run alone: no resolver call but its own.
NoCallers ==
    /\ received = <<>>
    /\ parked = <<>>

\* No normalize_trade call under way.
NoRecord ==
    /\ raw = [t |-> "none"]
    /\ returned = [kind |-> "uncalled"]

\* No analyze_trader call under way.
NoTrader ==
    /\ raw_trades = <<>>
    /\ now = 0
    /\ normalized = <<>>
    /\ filtered = None
    /\ metrics = [kind |-> "uncalled"]

\* No earlier analysis, and no recommend_copy_strategy or api_get call
\* under way.
NoBeyond ==
    /\ completed = <<>>
    /\ profile = [kind |-> "uncalled"]
    /\ rec = [kind |-> "uncalled"]
    /\ retries = 0
    /\ attempt = 0
    /\ response = None
    /\ slept = 0
    /\ api_result = [kind |-> "uncalled"]

Init ==
    /\ NoCallers
    /\ NoRecord
    /\ NoTrader
    /\ NoBeyond
    /\ trades_df \in ReplayInputs \cup GroupInputs
    /\ resolution_cache = << >>
    /\ pc = "group"
    /\ groups = GroupBy(trades_df)
    /\ idx = 0
    /\ trades = <<>>
    /\ pos = 0
    /\ position_queue = <<>>
    /\ realized_pnl = 0
    /\ total_volume = 0
    /\ sell_remaining = 0
    /\ sell_revenue = 0
    /\ sell_cost = 0
    /\ remaining_shares = 0
    /\ remaining_cost = 0
    /\ unrealized_pnl = 0
    /\ position_status = "open"
    /\ resolution = NoResolution
    /\ resolution_checks_done = 0
    /\ resolution_stats = [resolved_won |-> 0, resolved_lost |-> 0,
                           unresolved |-> 0, unknown |-> 0]
    /\ current_positions = <<>>
    /\ market_results = << >>

\* The key of the group being processed.
CurrentKey == groups[idx + 1]
market_id == CurrentKey[1]
asset_id == CurrentKey[2]
\* The row iterrows() yields next.
NextRow == trades_df[trades[pos + 1]]

\* Loop head of `for idx, (key, group) in enumerate(groups)`: sort the
\* group and reset the ledger.
StartGroup ==
    /\ pc = "group"
    /\ idx < Len(groups)
    /\ \E order \in SortValues(trades_df, GroupIndex(trades_df, CurrentKey, 1)) :
           trades' = order
    /\ pos' = 0
    /\ position_queue' = <<>>
    /\ realized_pnl' = 0
    /\ total_volume' = 0
    /\ pc' = "replay"
    /\ UNCHANGED <<outside, trades_df, resolution_cache, groups, idx, sell_remaining,
                   sell_revenue, sell_cost, valuation, resolution,
                   resolution_checks_done, outputs>>

\* One BUY row: append a lot.
ReplayBuy ==
    /\ pc = "replay"
    /\ pos < Len(trades)
    /\ NextRow.side = "BUY"
    /\ total_volume' = total_volume + NextRow.size * NextRow.price
    /\ position_queue' =
           Append(position_queue, [size |-> NextRow.size, price |-> NextRow.price])
    /\ pos' = pos + 1
    /\ UNCHANGED <<outside, trades_df, resolution_cache, pc, groups, idx, trades,
                   realized_pnl, sell_remaining, sell_revenue, sell_cost,
                   valuation, resolution, resolution_checks_done, outputs>>

\* One SELL row whose revenue counts for the matched volume only.
ReplaySellMatchedOnly ==
    /\ pc = "replay"
    /\ pos < Len(trades)
    /\ NextRow.side # "BUY"
    /\ total_volume' = total_volume + NextRow.size * NextRow.price
    /\ LET matched == ConsumeLots(position_queue, NextRow.size, 0)
           revenue == (NextRow.size - matched.sell_remaining) * NextRow.price
       IN  /\ position_queue' = matched.queue
           /\ sell_remaining' = matched.sell_remaining
           /\ sell_cost' = matched.sell_cost
           /\ sell_revenue' = revenue
           /\ realized_pnl' = realized_pnl + (revenue - matched.sell_cost)
    /\ pos' = pos + 1
    /\ UNCHANGED <<outside, trades_df, resolution_cache, pc, groups, idx, trades,
                   valuation, resolution, resolution_checks_done, outputs>>

\* One SELL row: match it against the queue head first.
ReplaySell ==
    /\ pc = "replay"
    /\ pos < Len(trades)
    /\ NextRow.side # "BUY"
    /\ total_volume' = total_volume + NextRow.size * NextRow.price
    /\ LET matched == ConsumeLots(position_queue, NextRow.size, 0) IN
           /\ position_queue' = matched.queue
           /\ sell_remaining' = matched.sell_remaining
           /\ sell_cost' = matched.sell_cost
           /\ sell_revenue' = NextRow.size * NextRow.price
           /\ realized_pnl' =
                  realized_pnl + (NextRow.size * NextRow.price - matched.sell_cost)
    /\ pos' = pos + 1
    /\ UNCHANGED <<outside, trades_df, resolution_cache, pc, groups, idx, trades,
                   valuation, resolution, resolution_checks_done, outputs>>

\* line 683 with >= for >.
MaterialAtLeast(shares) == shares >= DUST

\* line 683: a non-trivial position is held.
Material(shares) == shares > DUST

\* After the replay: the shares still held, and the decision to ask the
\* resolver (lines 676-689).
Tally ==
    /\ pc = "replay"
    /\ pos = Len(trades)
    /\ remaining_shares' = QueueShares(position_queue)
    /\ remaining_cost' = QueueCost(position_queue)
    /\ unrealized_pnl' = 0
    /\ position_status' = "open"
    /\ IF Material(QueueShares(position_queue))
       THEN /\ resolution_checks_done' = resolution_checks_done + 1
            /\ pc' = "fetch"
       ELSE /\ resolution_checks_done' = resolution_checks_done
            /\ pc' = "emit"
    /\ UNCHANGED <<outside, trades_df, resolution_cache, groups, idx, trades, pos,
                   ledger, resolution, outputs>>

\* ------------------------------------------------------------- resolver
\* What api_get hands back for GET clob/markets/<condition_id>: None (any
\* failed request, 404, empty body), a market object, or a truthy value
\* that is no object (a list, a string), on which data.get raises.
ClobTokenIds == {"111", "yes"}
ClobReplies ==
    {[kind |-> "none"], [kind |-> "malformed"]}
    \cup [kind : {"market"}, closed : BOOLEAN, winner : ClobTokenIds \cup {None}]

\* The outcome labels Gamma reports, before str(outcome).upper().
GammaOutcomes == {"Yes", "No", "1"}
\* What api_get hands back for GET gamma/markets?condition_id=...: None or
\* an empty or non-list body, a list headed by a market object, or a list
\* headed by something that is no object.
GammaReplies ==
    {[kind |-> "none"], [kind |-> "malformed"]}
    \cup [kind : {"markets"}, resolved : BOOLEAN, outcome : GammaOutcomes \cup {None}]

\* What api_get hands back for GET gamma/events?slug=...: as above; resolved
\* says whether some market of the event is resolved, outcome is that
\* market's outcome.
EventsReplies ==
    {[kind |-> "none"], [kind |-> "malformed"]}
    \cup [kind : {"event"}, resolved : BOOLEAN, outcome : GammaOutcomes \cup {None}]

Resolved(w) == [status |-> "RESOLVED", winner |-> w]
Unresolved == [status |-> "UNRESOLVED", winner |-> None]

\* A resolver that stores nothing.
CachePutNothing(cache, key, value) == cache

\* _resolution_cache[cache_key] = value
CachePut(cache, key, value) == (key :> value) @@ cache

\* return of fetch_market_resolution to line 689
FetchReturn(value) ==
    /\ resolution' = value
    /\ pc' = "valuate"

\* The exception leaves fetch_market_resolution, and nothing on the way
\* up (lines 689, 831, 1399/1453) catches it.
FetchRaise ==
    /\ pc' = "aborted"
    /\ UNCHANGED <<resolution, resolution_cache>>

\* lines 322-323: no lookup for a missing market id.
FetchSkip ==
    /\ pc = "fetch"
    /\ market_id \in {"", "unknown"}
    /\ FetchReturn(NoResolution)
    /\ UNCHANGED <<outside, trades_df, resolution_cache, groups, idx, trades, pos,
                   ledger, valuation, resolution_checks_done, outputs>>

\* lines 326-328: the cached answer of the market.
FetchCached ==
    /\ pc = "fetch"
    /\ market_id \notin {"", "unknown"}
    /\ market_id \in DOMAIN resolution_cache
    /\ FetchReturn(resolution_cache[market_id])
    /\ UNCHANGED <<outside, trades_df, resolution_cache, groups, idx, trades, pos,
                   ledger, valuation, resolution_checks_done, outputs>>

\* Method 1 without the cache check of line 327 before it.
FetchClobUncached ==
    /\ pc = "fetch"
    /\ market_id \notin {"", "unknown"}
    /\ \E data \in ClobReplies :
          CASE data.kind = "none" ->
                   /\ pc' = "gamma"
                   /\ UNCHANGED <<resolution, resolution_cache>>
            [] data.kind = "malformed" -> FetchRaise
            [] OTHER ->
                   LET value == IF data.closed THEN Resolved(data.winner)
                                ELSE Unresolved IN
                   /\ resolution_cache' =
                          CachePut(resolution_cache, market_id, value)
                   /\ FetchReturn(value)
    /\ UNCHANGED <<outside, trades_df, groups, idx, trades, pos, ledger, valuation,
                   resolution_checks_done, outputs>>

\* lines 330-350: method 1, the CLOB market.
FetchClob ==
    /\ pc = "fetch"
    /\ market_id \notin {"", "unknown"}
    /\ market_id \notin DOMAIN resolution_cache
    /\ \E data \in ClobReplies :
          CASE data.kind = "none" ->
                   /\ pc' = "gamma"
                   /\ UNCHANGED <<resolution, resolution_cache>>
            [] data.kind = "malformed" -> FetchRaise
            [] OTHER ->
                   LET value == IF data.closed THEN Resolved(data.winner)
                                ELSE Unresolved IN
                   /\ resolution_cache' =
                          CachePut(resolution_cache, market_id, value)
                   /\ FetchReturn(value)
    /\ UNCHANGED <<outside, trades_df, groups, idx, trades, pos, ledger, valuation,
                   resolution_checks_done, outputs>>

\* lines 352-366: method 2, the Gamma market search.  A resolved market
\* without an outcome falls through to method 3.
FetchGamma ==
    /\ pc = "gamma"
    /\ \E data \in GammaReplies :
          CASE data.kind = "none" ->
                   /\ pc' = "events"
                   /\ UNCHANGED <<resolution, resolution_cache>>
            [] data.kind = "malformed" -> FetchRaise
            [] data.resolved /\ data.outcome = None ->
                   /\ pc' = "events"
                   /\ UNCHANGED <<resolution, resolution_cache>>
            [] OTHER ->
                   LET value == IF data.resolved
                                THEN Resolved(Upper(data.outcome))
                                ELSE Unresolved IN
                   /\ resolution_cache' =
                          CachePut(resolution_cache, market_id, value)
                   /\ FetchReturn(value)
    /\ UNCHANGED <<outside, trades_df, groups, idx, trades, pos, ledger, valuation,
                   resolution_checks_done, outputs>>

\* Method 3 without the negative cache entry of line 382.
FetchEventsForgetsFailure ==
    /\ pc = "events"
    /\ \E data \in EventsReplies :
          CASE data.kind = "malformed" -> FetchRaise
            [] data.kind = "none" ->
                   /\ FetchReturn(NoResolution)
                   /\ UNCHANGED resolution_cache
            [] OTHER ->
                   LET value ==
                       IF data.resolved
                       THEN Resolved(IF data.outcome = None THEN None
                                     ELSE Upper(data.outcome))
                       ELSE Unresolved IN
                   /\ resolution_cache' =
                          CachePut(resolution_cache, market_id, value)
                   /\ FetchReturn(value)
    /\ UNCHANGED <<outside, trades_df, groups, idx, trades, pos, ledger, valuation,
                   resolution_checks_done, outputs>>

\* lines 368-383: method 3, the Gamma event, and the negative cache entry.
FetchEvents ==
    /\ pc = "events"
    /\ \E data \in EventsReplies :
          CASE data.kind = "malformed" -> FetchRaise
            [] OTHER ->
                   LET value ==
                       IF data.kind = "none" THEN NoResolution
                       ELSE IF data.resolved
                       THEN Resolved(IF data.outcome = None THEN None
                                     ELSE Upper(data.outcome))
                       ELSE Unresolved IN
                   /\ resolution_cache' =
                          CachePut(resolution_cache, market_id, value)
                   /\ FetchReturn(value)
    /\ UNCHANGED <<outside, trades_df, groups, idx, trades, pos, ledger, valuation,
                   resolution_checks_done, outputs>>

\* ------------------------------------------------------------- valuation
\* lines 693-704 without the binary-label branches.
PositionWonVerbatim(asset, token_type, winning_asset) ==
    /\ winning_asset # None
    /\ asset = winning_asset

\* lines 693-704
PositionWon(asset, token_type, winning_asset) ==
    /\ winning_asset # None
    /\ \/ asset = winning_asset
       \/ token_type = "YES" /\ Upper(winning_asset) \in {"YES", "1", "TRUE"}
       \/ token_type = "NO" /\ Upper(winning_asset) \in {"NO", "0", "FALSE"}

\* trades.iloc[-1]
LastTrade == trades_df[trades[Len(trades)]]

\* The mark without the cost of the shares.
MarkToValue(price) == remaining_shares * price

\* unrealized_pnl of a position marked at `price` per share
MarkTo(price) == remaining_shares * price - remaining_cost

\* line 738 listing the undetermined positions as well.
ListsPositionUnknownToo(status) == status \in {"open", "unknown"}

\* line 738: the position is listed if it is still open.
ListsPosition(status) == status = "open"

\* A tally that files every position under unknown.
BumpUnknown(stats, field) == [stats EXCEPT !.unknown = @ + 1]

Bump(stats, field) == [stats EXCEPT ![field] = @ + 1]

\* Loop head after a group: the next group, or `return` (line 765).
NextGroup == IF idx + 1 < Len(groups) THEN "group" ELSE "done"

\* lines 749-763: the group's MarketResult.
MarketResult(unrealized, status) ==
    [market |-> market_id, asset |-> asset_id,
     token_type |-> DetermineTokenType(asset_id),
     realized_pnl |-> realized_pnl,
     unrealized_pnl |-> unrealized,
     total_pnl |-> realized_pnl + unrealized,
     position |-> remaining_shares,
     position_cost |-> remaining_cost,
     position_status |-> status,
     volume |-> total_volume,
     trade_count |-> Len(trades)]

\* position_status by the resolver's answer (lines 691-729).
StatusOf(answer, asset, token_type) ==
    IF answer.status = "RESOLVED"
    THEN IF PositionWon(asset, token_type, answer.winner)
         THEN "won" ELSE "lost"
    ELSE IF answer.status = "UNRESOLVED" THEN "open"
    ELSE "unknown"

\* lines 691-763, after the resolver returned: value the held shares by
\* its answer, count it, list the position if it is still open, and emit
\* the group's MarketResult.
Valuate ==
    /\ pc = "valuate"
    /\ LET token_type == DetermineTokenType(asset_id)
           status == StatusOf(resolution, asset_id, token_type)
           pnl ==
               CASE status = "won" -> MarkTo(PAYOUT)
                 [] status = "lost" -> 0 - remaining_cost
                 [] OTHER -> MarkTo(LastTrade.price)
           counter ==
               CASE status = "won" -> "resolved_won"
                 [] status = "lost" -> "resolved_lost"
                 [] status = "open" -> "unresolved"
                 [] OTHER -> "unknown"
       IN  /\ unrealized_pnl' = pnl
           /\ position_status' = status
           /\ resolution_stats' = Bump(resolution_stats, counter)
           /\ current_positions' =
                  IF ListsPosition(status)
                  THEN Append(current_positions,
                              [market |-> market_id, asset |-> asset_id,
                               token_type |-> token_type,
                               size |-> remaining_shares,
                               avg_price |-> <<remaining_cost, remaining_shares>>,
                               current_value |-> pnl + remaining_cost,
                               last_trade_ts |-> LastTrade.timestamp])
                  ELSE current_positions
           /\ market_results' =
                  (CurrentKey :> MarketResult(pnl, status)) @@ market_results
    /\ idx' = idx + 1
    /\ pc' = NextGroup
    /\ UNCHANGED <<outside, trades_df, resolution_cache, groups, trades, pos,
                   ledger, remaining_shares, remaining_cost, resolution,
                   resolution_checks_done>>

\* lines 749-763 when line 683 skipped the valuation: the MarketResult of
\* a group without a material position.
Emit ==
    /\ pc = "emit"
    /\ market_results' =
           (CurrentKey :> MarketResult(unrealized_pnl, position_status))
           @@ market_results
    /\ idx' = idx + 1
    /\ pc' = NextGroup
    /\ UNCHANGED <<outside, trades_df, resolution_cache, groups, trades, pos, ledger,
                   valuation, resolution, resolution_checks_done,
                   resolution_stats, current_positions>>

Next ==
    \/ StartGroup
    \/ ReplayBuy
    \/ ReplaySell
    \/ Tally
    \/ FetchSkip
    \/ FetchCached
    \/ FetchClob
    \/ FetchGamma
    \/ FetchEvents
    \/ Valuate
    \/ Emit

Spec == Init /\ [][Next]_vars

\* ============================================================= properties
\* The rows of the current group replayed so far, in replay order.
Replayed == [i \in 1..pos |-> trades_df[trades[i]]]

RECURSIVE SumSeq(_)
SumSeq(s) == IF s = <<>> THEN 0 ELSE Head(s) + SumSeq(Tail(s))

BuySize(rows) ==
    SumSeq([i \in DOMAIN rows |-> IF rows[i].side = "BUY" THEN rows[i].size ELSE 0])
SellSize(rows) ==
    SumSeq([i \in DOMAIN rows |-> IF rows[i].side = "SELL" THEN rows[i].size ELSE 0])
BuyCost(rows) ==
    SumSeq([i \in DOMAIN rows |->
               IF rows[i].side = "BUY" THEN rows[i].size * rows[i].price ELSE 0])
SellRevenue(rows) ==
    SumSeq([i \in DOMAIN rows |->
               IF rows[i].side = "SELL" THEN rows[i].size * rows[i].price ELSE 0])

\* Shares held after the first n rows: a BUY adds its size, a SELL takes
\* its size off, down to nothing.
RECURSIVE Held(_, _)
Held(rows, n) ==
    IF n = 0 THEN 0
    ELSE LET before == Held(rows, n - 1) IN
         IF rows[n].side = "BUY" THEN before + rows[n].size
         ELSE IF rows[n].size >= before THEN 0 ELSE before - rows[n].size

Min(a, b) == IF a <= b THEN a ELSE b

\* Volume of the n-th row, a SELL, that met shares held at that moment.
ConsumedBy(rows, n) == Min(rows[n].size, Held(rows, n - 1))

\* Sell volume consumed from lots over all the rows.
Consumed(rows) ==
    SumSeq([i \in DOMAIN rows |->
               IF rows[i].side = "SELL" THEN ConsumedBy(rows, i) ELSE 0])

\* No SELL exceeds the shares held when it is replayed.
NoOversell(rows) ==
    \A i \in DOMAIN rows :
        rows[i].side = "SELL" => rows[i].size <= Held(rows, i - 1)

\* The replay of the current group is over and its shares are counted.
Tallied == pc \in {"fetch", "gamma", "events", "valuate", "emit", "done"}

\* C1: after every replayed trade the lot sizes in the queue add up to the
\* BUY size so far minus the sell volume consumed from lots, a SELL leaves
\* unmatched exactly what it did not consume, and when no SELL exceeded
\* the shares held, remainingShares is the BUY sizes minus the SELL sizes.
C1_Conservation ==
    /\ QueueShares(position_queue) = BuySize(Replayed) - Consumed(Replayed)
    /\ (pos > 0 /\ Replayed[pos].side = "SELL")
          => sell_remaining = Replayed[pos].size - ConsumedBy(Replayed, pos)
    /\ (Tallied /\ NoOversell(Replayed))
          => remaining_shares = BuySize(Replayed) - SellSize(Replayed)

\* A group is tallied after a SELL split a lot, with no oversell.
C1_Witness ==
    /\ Tallied
    /\ NoOversell(Replayed)
    /\ SellSize(Replayed) = 1500
    /\ BuySize(Replayed) = 2000
    /\ remaining_shares = 500

\* C2: no lot ever has a negative size, remainingShares and remainingCost
\* are never negative, and the sell cost charged so far is the cost of the
\* bought shares that left the queue: volume sold beyond the held lots
\* adds nothing to it.
C2_NeverNegative ==
    /\ \A i \in DOMAIN position_queue : position_queue[i].size >= 0
    /\ remaining_shares >= 0
    /\ remaining_cost >= 0
    /\ SellRevenue(Replayed) - realized_pnl
           = BuyCost(Replayed) - QueueCost(position_queue)
    /\ (pos > 0 /\ Replayed[pos].side = "SELL"
            /\ Replayed[pos].size > Held(Replayed, pos - 1))
          => position_queue = <<>> /\ sell_remaining > 0

\* A SELL larger than the shares held was replayed after a BUY, and a
\* SELL was replayed before any BUY.
C2_Witness ==
    /\ pos = 3
    /\ Replayed[1].side = "SELL"
    /\ Replayed[2].side = "BUY"
    /\ Replayed[3].side = "SELL"
    /\ Replayed[3].size > Replayed[2].size
    /\ sell_remaining = 500
    /\ sell_cost = Replayed[2].size * Replayed[2].price

\* Lots of q that a SELL of `volume` removes whole: the longest prefix
\* whose sizes add up to no more than the volume.
WholeLots(q, volume) ==
    CHOOSE k \in 0..Len(q) :
        /\ QueueShares(SubSeq(q, 1, k)) <= volume
        /\ k < Len(q) => QueueShares(SubSeq(q, 1, k + 1)) > volume

\* The queue and the sell cost oldest-first matching of a SELL of `volume`
\* leaves: whole lots go with their full cost, the next lot is cut by what
\* is left of the volume and keeps its unit cost.
MatchedOldestFirst(q, volume, q2, cost) ==
    LET k == WholeLots(q, volume)
        spare == volume - QueueShares(SubSeq(q, 1, k)) IN
    IF k = Len(q)
    THEN q2 = <<>> /\ cost = QueueCost(q)
    ELSE /\ Len(q2) = Len(q) - k
         /\ q2[1] = [size |-> q[k + 1].size - spare, price |-> q[k + 1].price]
         /\ Tail(q2) = SubSeq(q, k + 2, Len(q))
         /\ cost = QueueCost(SubSeq(q, 1, k)) + spare * q[k + 1].price

\* The group of the worked example: BUY 10 @ 0.40, BUY 10 @ 0.60,
\* SELL 15 @ 0.70.
ScenarioTrades ==
    << Row(<<"m2", "111">>, [side |-> "BUY", size |-> 1000, price |-> 40], 1),
       Row(<<"m2", "111">>, [side |-> "BUY", size |-> 1000, price |-> 60], 2),
       Row(<<"m2", "111">>, [side |-> "SELL", size |-> 1500, price |-> 70], 3) >>

ScenarioEmitted ==
    /\ trades_df = ScenarioTrades
    /\ <<"m2", "111">> \in DOMAIN market_results

ScenarioResult == market_results[<<"m2", "111">>]

\* C3: every SELL matches the queue oldest first (whole lots removed with
\* their full cost, then one lot split in place at its unit cost), and the
\* worked example with an Unresolved market yields realizedPnl 3.5,
\* 5 shares costing 3.0, unrealizedPnl 0.5 and totalPnl 4.0.
C3_OldestFirst ==
    /\ [][ReplaySell =>
            /\ MatchedOldestFirst(position_queue, NextRow.size,
                                  position_queue', sell_cost')
            /\ realized_pnl' =
                   realized_pnl + NextRow.size * NextRow.price - sell_cost']_vars
    /\ [](ScenarioEmitted /\ resolution.status = "UNRESOLVED"
            => /\ ScenarioResult.realized_pnl = 35000
               /\ ScenarioResult.position = 500
               /\ ScenarioResult.position_cost = 30000
               /\ ScenarioResult.unrealized_pnl = 5000
               /\ ScenarioResult.total_pnl = 40000
               /\ ScenarioResult.position_status = "open")

\* The worked example was replayed and emitted for an Unresolved market.
C3_Witness ==
    /\ ScenarioEmitted
    /\ resolution.status = "UNRESOLVED"
    /\ position_queue = <<[size |-> 500, price |-> 60]>>

\* The rows of the group `key`, in arrival order.
GroupRows(key) ==
    LET index == GroupIndex(trades_df, key, 1) IN
    [i \in DOMAIN index |-> trades_df[index[i]]]

\* C4: every MarketResult has totalPnl = realizedPnl + unrealizedPnl, and
\* a group left with no shares has totalPnl = all its SELL revenue minus
\* all its BUY cost.
C4_PnlIdentity ==
    \A key \in DOMAIN market_results :
        LET r == market_results[key] IN
        /\ r.total_pnl = r.realized_pnl + r.unrealized_pnl
        /\ r.position = 0
              => r.total_pnl
                     = SellRevenue(GroupRows(key)) - BuyCost(GroupRows(key))

\* A group that bought twice and sold everything in two SELLs, one of them
\* splitting a lot, was emitted.
C4_Witness ==
    \E key \in DOMAIN market_results :
        /\ market_results[key].position = 0
        /\ market_results[key].trade_count = 3
        /\ BuySize(GroupRows(key)) = 1500
        /\ SellSize(GroupRows(key)) = 2000
        /\ GroupRows(key)[1].side = "BUY"
        /\ market_results[key].total_pnl # 0

\* ------------------------------------------------------------- valuation
\* The group emitted last, and its MarketResult.
LastKey == groups[idx]
LastResult == market_results[LastKey]

\* The group emitted last held a material position, and `resolution` is
\* the resolver's answer it was valued by.
JustValued == idx > 0 /\ pc \in {"group", "done"} /\ LastResult.position > DUST

\* The price of the last of the group's rows in replay order.
LastPrice == trades_df[trades[Len(trades)]].price

\* C5: a material position of a Resolved market is won or lost; won is
\* valued at remainingShares x 1 - remainingCost, lost at -remainingCost;
\* the 5 shares costing 3.0 of the worked example, winning, give
\* unrealizedPnl 2.0 and totalPnl 5.5.
C5_ResolvedValuation ==
    /\ (JustValued /\ resolution.status = "RESOLVED")
          => /\ LastResult.position_status \in {"won", "lost"}
             /\ LastResult.position_status = "won"
                   => LastResult.unrealized_pnl
                          = LastResult.position * PAYOUT - LastResult.position_cost
             /\ LastResult.position_status = "lost"
                   => LastResult.unrealized_pnl = 0 - LastResult.position_cost
    /\ (ScenarioEmitted /\ resolution = Resolved("111"))
          => /\ ScenarioResult.position_status = "won"
             /\ ScenarioResult.realized_pnl = 35000
             /\ ScenarioResult.unrealized_pnl = 20000
             /\ ScenarioResult.total_pnl = 55000

\* The worked example was emitted for a market resolved to the held token.
C5_Witness ==
    /\ ScenarioEmitted
    /\ resolution = Resolved("111")
    /\ ScenarioResult.position = 500
    /\ ScenarioResult.position_cost = 30000

YesLabels == {"YES", "TRUE", "1"}
NoLabels == {"NO", "FALSE", "0"}

\* The winning rule as the claim words it.
HeldAssetWins(asset, winner) ==
    /\ winner # None
    /\ \/ asset = winner
       \/ Upper(asset) \in YesLabels /\ Upper(winner) \in YesLabels
       \/ Upper(asset) \in NoLabels /\ Upper(winner) \in NoLabels

\* C6: on a Resolved answer the position is won exactly when the held
\* asset id is the winning id, or both are YES labels, or both are NO
\* labels (labels compared without regard to case); otherwise, also
\* when the answer names no winner, it is lost.
C6_WonIff ==
    (JustValued /\ resolution.status = "RESOLVED")
       => LastResult.position_status =
              IF HeldAssetWins(LastKey[2], resolution.winner)
              THEN "won" ELSE "lost"

\* A held "no" token won on the label NO.
C6_Witness ==
    /\ JustValued
    /\ LastKey = <<"m1", "no">>
    /\ resolution = Resolved("NO")
    /\ LastResult.position_status = "won"

\* A Resolved answer without a winner lost the position.
C6_WitnessNoWinner ==
    /\ JustValued
    /\ resolution = Resolved(None)
    /\ LastResult.position_status = "lost"

\* C7 (as claimed): an Unresolved or Unknown answer values the material
\* position at remainingShares x last trade price - remainingCost with
\* status open resp. unknown, and no resolver failure aborts the analysis.
C7_NeverAborts ==
    /\ pc # "aborted"
    /\ (JustValued /\ resolution.status # "RESOLVED")
          => /\ LastResult.unrealized_pnl
                    = LastResult.position * LastPrice - LastResult.position_cost
             /\ LastResult.position_status =
                    IF resolution.status = "UNRESOLVED" THEN "open" ELSE "unknown"

\* The valuation part of C7 alone, which the code satisfies.
C7_MarkToLastPrice ==
    (JustValued /\ resolution.status # "RESOLVED")
       => /\ LastResult.unrealized_pnl
                 = LastResult.position * LastPrice - LastResult.position_cost
          /\ LastResult.position_status =
                 IF resolution.status = "UNRESOLVED" THEN "open" ELSE "unknown"

\* C8 (as claimed): the rows of a group are replayed in ascending
\* timestamp order, rows of equal timestamp in arrival order.
C8_StableOrder ==
    \A i, j \in DOMAIN trades :
        i < j => \/ trades_df[trades[i]].timestamp < trades_df[trades[j]].timestamp
                 \/ /\ trades_df[trades[i]].timestamp = trades_df[trades[j]].timestamp
                    /\ trades[i] < trades[j]

\* The ascending part of C8 alone, which the code satisfies.
C8_AscendingOrder ==
    \A i, j \in DOMAIN trades :
        i < j => trades_df[trades[i]].timestamp <= trades_df[trades[j]].timestamp

\* Between groups: every group started has been emitted.
BetweenGroups == pc \in {"group", "done"}

\* C9 (as claimed): the resolver is asked for exactly the groups whose
\* remainingShares is not below 0.01.
C9_AskedFromThreshold ==
    BetweenGroups
       => resolution_checks_done =
              Cardinality({ k \in DOMAIN market_results :
                              market_results[k].position >= DUST })

\* C9 (amended): the resolver is asked for exactly the groups whose
\* remainingShares exceeds 0.01; a group holding 0.01 shares or less is
\* emitted without a resolver call, with unrealizedPnl 0 and status open.
C9_AskedAboveThreshold ==
    /\ BetweenGroups
          => resolution_checks_done =
                 Cardinality({ k \in DOMAIN market_results :
                                 market_results[k].position > DUST })
    /\ pc \in {"fetch", "gamma", "events", "valuate"} => remaining_shares > DUST
    /\ pc = "emit" => remaining_shares <= DUST
    /\ \A k \in DOMAIN market_results :
           market_results[k].position <= DUST
              => /\ market_results[k].unrealized_pnl = 0
                 /\ market_results[k].position_status = "open"

\* One group holding exactly 0.01 shares was emitted unasked, another one
\* was asked about.
C9_Witness ==
    /\ pc = "done"
    /\ resolution_checks_done = 1
    /\ \E k \in DOMAIN market_results : market_results[k].position = DUST
    /\ \E k \in DOMAIN market_results : market_results[k].position > DUST

HasPosition(key) ==
    \E i \in DOMAIN current_positions :
        /\ current_positions[i].market = key[1]
        /\ current_positions[i].asset = key[2]

\* C10 (as claimed): a CurrentPosition is listed for every group with
\* status open and for no group with status won, lost or unknown.
C10_PositionIffOpen ==
    \A k \in DOMAIN market_results :
        HasPosition(k) <=> market_results[k].position_status = "open"

\* C10 (amended): a CurrentPosition is listed, once, for every group with
\* status open that holds more than 0.01 shares, and for no other group.
C10_PositionIffOpenMaterial ==
    /\ \A k \in DOMAIN market_results :
           HasPosition(k) <=> /\ market_results[k].position_status = "open"
                              /\ market_results[k].position > DUST
    /\ \A i \in DOMAIN current_positions :
           /\ <<current_positions[i].market, current_positions[i].asset>>
                  \in DOMAIN market_results
           /\ current_positions[i].size
                  = market_results[<<current_positions[i].market,
                                     current_positions[i].asset>>].position
           /\ \A j \in DOMAIN current_positions :
                  (current_positions[j].market = current_positions[i].market
                   /\ current_positions[j].asset = current_positions[i].asset)
                     => i = j

\* Of two groups with status open, one holds a position and is listed,
\* the other holds 0.01 shares or less and is not.
C10_Witness ==
    /\ pc = "done"
    /\ Len(current_positions) = 1
    /\ \A k \in GroupKeys :
           /\ k \in DOMAIN market_results
           /\ market_results[k].position_status = "open"

\* ====================================================== resolver, many calls
\* The resolver calls of one run of the program, whoever the trader: the
\* module-level cache is never cleared between them.
MaxCalls == 3

\* The (condition_id, asset_id) pairs line 689 passes.
CallKeys == ReplayKeys \cup GroupKeys

\* No analysis in progress: the state of the ledger's variables between
\* two traders.
LedgerAtRest ==
    /\ trades_df = <<>>
    /\ idx = 0
    /\ trades = <<>>
    /\ pos = 0
    /\ position_queue = <<>>
    /\ realized_pnl = 0
    /\ total_volume = 0
    /\ sell_remaining = 0
    /\ sell_revenue = 0
    /\ sell_cost = 0
    /\ remaining_shares = 0
    /\ remaining_cost = 0
    /\ unrealized_pnl = 0
    /\ position_status = "open"
    /\ resolution = NoResolution
    /\ resolution_checks_done = 0
    /\ resolution_stats = [resolved_won |-> 0, resolved_lost |-> 0,
                           unresolved |-> 0, unknown |-> 0]
    /\ current_positions = <<>>
    /\ market_results = << >>

\* Program start: `_resolution_cache = {}` and no call made.
InitCalls ==
    /\ NoBeyond
    /\ NoCallers
    /\ NoRecord
    /\ NoTrader
    /\ LedgerAtRest
    /\ resolution_cache = << >>
    /\ groups = <<>>
    /\ pc = "idle"

\* line 689, for some group of some trader: fetch_market_resolution is
\* entered with the group's key.
CallResolver ==
    /\ pc = "idle"
    /\ resolution_checks_done < MaxCalls
    /\ \E key \in CallKeys : groups' = <<key>>
    /\ resolution_checks_done' = resolution_checks_done + 1
    /\ pc' = "fetch"
    /\ UNCHANGED <<outside, trades_df, resolution_cache, idx, trades, pos,
                   ledger, valuation, resolution, outputs>>

\* line 689, the assignment: the call site holds what the call returned.
Receive ==
    /\ pc = "valuate"
    /\ received' = Append(received, [market |-> market_id, asset |-> asset_id,
                                     answer |-> resolution])
    /\ pc' = "idle"
    /\ UNCHANGED <<beyond, parked, record, trader, trades_df, resolution_cache, groups, idx,
                   trades, pos, ledger, valuation, resolution,
                   resolution_checks_done, outputs>>

NextCalls ==
    \/ CallResolver
    \/ FetchSkip
    \/ FetchCached
    \/ FetchClob
    \/ FetchGamma
    \/ FetchEvents
    \/ Receive

SpecCalls == InitCalls /\ [][NextCalls]_vars

\* ------------------------------------------------------------ C11 .. C13
\* C11: over the resolver calls of one run, an entry the cache holds for a
\* market id stays, and is never replaced by a different value.
C11_EntriesAreFinal ==
    [][\A m \in DOMAIN resolution_cache :
           /\ m \in DOMAIN resolution_cache'
           /\ resolution_cache'[m] = resolution_cache[m]]_vars

\* Two markets are cached, and a market already cached was asked again and
\* answered.
C11_Witness ==
    /\ DOMAIN resolution_cache = {"m1", "m2"}
    /\ Len(received) = 3
    /\ received[1].market = "m1"
    /\ received[2].market = "m2"
    /\ received[3].market = "m1"
    /\ resolution_cache["m1"] # resolution_cache["m2"]

\* The market ids the resolver memoizes.
Memoized(m) == m \notin {"", "unknown"}

\* Some call for market m has returned.
Answered(m) == \E i \in DOMAIN received : received[i].market = m

\* A step of the resolver that asks a remote service.
RemoteLookup == FetchClob \/ FetchGamma \/ FetchEvents

\* C12: the resolver memoizes by market id alone: once a call for a market
\* id (not empty, not 'unknown') has returned, no later call for it asks a
\* remote service, and every later call returns what the first returned,
\* whatever the asset id, the answer (None, None) included.
C12_MemoizedByMarket ==
    /\ [][RemoteLookup => ~Answered(market_id)]_vars
    /\ [](\A i, j \in DOMAIN received :
              (received[i].market = received[j].market
                   /\ Memoized(received[i].market))
              => received[i].answer = received[j].answer)

\* The first call for m1 returned (None, None); the second, with the other
\* asset id, has returned too.
C12_Witness ==
    /\ Len(received) = 2
    /\ received[1] = [market |-> "m1", asset |-> "YES", answer |-> NoResolution]
    /\ received[2].market = "m1"
    /\ received[2].asset = "no"

\* The results fetch_market_resolution documents: (status, winning_asset)
\* with status RESOLVED, UNRESOLVED or None.
Answers ==
    {NoResolution, Unresolved}
    \cup {Resolved(w) : w \in ClobTokenIds \cup {None}
                              \cup {Upper(o) : o \in GammaOutcomes}}

\* C13: whatever its remote lookups yield, a resolver call ends by
\* returning one of its documented results; no fault leaves it.
C13_AlwaysAnswers ==
    /\ pc # "aborted"
    /\ \A i \in DOMAIN received : received[i].answer \in Answers

\* ==================================================== resolver, in parallel
\* Per-trader analyses run as threads of one process and share
\* _resolution_cache.  One thread runs at a time (the interpreter lock);
\* it can lose the processor between any two steps of its resolver call,
\* a step being one round trip of api_get with the code around it.
MaxCallers == 2

\* The call a thread that is not running is in: where it stands, its
\* arguments, and what it holds as the result.
Context(at, key, answer) == [pc |-> at, key |-> key, resolution |-> answer]

\* Every thread is about to enter fetch_market_resolution for some group
\* key; the cache is empty.
InitRace ==
    /\ NoBeyond
    /\ NoRecord
    /\ NoTrader
    /\ LedgerAtRest
    /\ resolution_cache = << >>
    /\ received = <<>>
    /\ pc = "fetch"
    /\ \E keys \in [1..MaxCallers -> CallKeys] :
           /\ groups = <<keys[1]>>
           /\ parked = [i \in 1..(MaxCallers - 1) |->
                            Context("fetch", keys[i + 1], NoResolution)]

\* The running thread is suspended (it blocks in requests.get, or its time
\* slice ends) and a parked one resumes.
Switch ==
    /\ \E i \in DOMAIN parked :
           /\ pc' = parked[i].pc
           /\ groups' = <<parked[i].key>>
           /\ resolution' = parked[i].resolution
           /\ parked' = [parked EXCEPT ![i] = Context(pc, CurrentKey, resolution)]
    /\ UNCHANGED <<beyond, received, record, trader, trades_df, resolution_cache, idx, trades,
                   pos, ledger, valuation, resolution_checks_done, outputs>>

NextRace ==
    \/ Switch
    \/ FetchSkip
    \/ FetchCached
    \/ FetchClob
    \/ FetchGamma
    \/ FetchEvents
    \/ Receive

SpecRace == InitRace /\ [][NextRace]_vars

\* ------------------------------------------------------------------ C14
\* Where each thread stands: the running one first.
Standing == <<pc>> \o [i \in DOMAIN parked |-> parked[i].pc]

\* Every thread has left its call.
AllLeft == \A i \in DOMAIN Standing : Standing[i] \in {"idle", "aborted"}

\* The arguments of the calls: the running thread's first.
Asked == {CurrentKey[1]} \cup {parked[i].key[1] : i \in DOMAIN parked}

\* No thread's call raised.
C14_NoFault == \A i \in DOMAIN Standing : Standing[i] # "aborted"

\* Every entry of the cache is a whole result.
C14_WholeEntries ==
    \A m \in DOMAIN resolution_cache : resolution_cache[m] \in Answers

\* When all calls are over, each memoized market asked for has its entry,
\* and the entry is what one of its callers was handed.
C14_OneEntry ==
    AllLeft =>
        \A m \in Asked :
            Memoized(m) =>
                /\ m \in DOMAIN resolution_cache
                /\ \E i \in DOMAIN received :
                       /\ received[i].market = m
                       /\ received[i].answer = resolution_cache[m]

\* The callers of one market were handed the same result.
C14_SameAnswer ==
    \A i, j \in DOMAIN received :
        (received[i].market = received[j].market
             /\ Memoized(received[i].market))
        => received[i].answer = received[j].answer

\* C14: resolver calls for the same market id that overlap are benign: in
\* every interleaving no caller faults or sees a partial entry, the cache
\* ends with one entry for the market, a value one of the callers wrote,
\* and all callers of the market obtain the same resolution.
C14_RaceIsBenign ==
    /\ C14_NoFault
    /\ C14_WholeEntries
    /\ C14_OneEntry
    /\ C14_SameAnswer

\* ========================================================= normalize_trade
\* The values a decoded JSON record holds under a key: the key is absent,
\* null, a number, a string spelling a number, another string, a string in
\* ISO-8601 form, the float NaN, or a list.  Numbers are in the units of
\* the ledger (0.01 share, cent) or seconds.
Absent == [t |-> "absent"]
Null == [t |-> "null"]
Num(v) == [t |-> "num", v |-> v]
NumStr(v) == [t |-> "numstr", v |-> v]
Str(v) == [t |-> "str", v |-> v]
Iso(v) == [t |-> "iso", v |-> v]
NaN == [t |-> "nan"]

\* raw.get(key) and raw.get(key, default)
Get(x) == IF x = Absent THEN Null ELSE x
GetOr(x, default) == IF x = Absent THEN default ELSE x

\* bool(x)
Truthy(x) ==
    CASE x.t \in {"absent", "null"} -> FALSE
      [] x.t = "num" -> x.v # 0
      [] x.t = "str" -> x.v # ""
      [] OTHER -> TRUE

\* a or b or c ...
RECURSIVE FirstTruthy(_)
FirstTruthy(xs) ==
    IF Len(xs) = 1 \/ Truthy(Head(xs)) THEN Head(xs) ELSE FirstTruthy(Tail(xs))

\* A float, or the exception its computation raised.
Float(v) == [err |-> None, nan |-> FALSE, v |-> v]
Raises(e) == [err |-> e, nan |-> FALSE, v |-> 0]

\* float(x)
FloatOf(x) ==
    CASE x.t \in {"num", "numstr"} -> Float(x.v)
      [] x.t = "nan" -> [err |-> None, nan |-> TRUE, v |-> 0]
      [] x.t \in {"str", "iso"} -> Raises("ValueError")
      [] OTHER -> Raises("TypeError")

\* Comparisons of floats: every comparison with NaN is false.
Le(a, n) == ~a.nan /\ a.v <= n
Gt(a, n) == ~a.nan /\ a.v > n

\* str(x) if x else 'unknown'
StrOrUnknown(x) ==
    IF ~Truthy(x) THEN "unknown"
    ELSE IF x.t \in {"num", "numstr"} THEN ToString(x.v) ELSE x.v

\* How a call of normalize_trade ends without a trade.
Rejected == [kind |-> "None"]
Raised(e) == [kind |-> "raised", error |-> e]

\* normalize_trade(raw).  ValueError, TypeError and KeyError are caught
\* (line 567); any other exception leaves the function.
NormalizeTrade(r) ==
    IF r.t # "dict" THEN Raised("AttributeError")
    ELSE
    LET ts_val == FirstTruthy(<<Get(r.timestamp), Get(r.time), Get(r.createdAt)>>)
        \* line 531: isinstance(ts_val, str), then
        \* datetime.fromisoformat(ts_val.replace('Z', '+00:00')).timestamp()
        ts == IF ts_val.t \in {"str", "numstr", "iso"}
              THEN IF ts_val.t = "iso" THEN Float(ts_val.v)
                   ELSE Raises("ValueError")
              ELSE FloatOf(ts_val)
        size == FloatOf(GetOr(r.size, Num(0)))
        price == FloatOf(GetOr(r.price, Num(0)))
        \* line 543: raw.get('side', '').upper()
        side_val == GetOr(r.side, Str(""))
        side == IF side_val.t = "str"
                THEN [err |-> None, v |-> Upper(side_val.v)]
                ELSE [err |-> "AttributeError", v |-> ""]
        market == FirstTruthy(<<Get(r.market), Get(r.conditionId),
                                Get(r.condition_id), Get(r.marketId)>>)
        asset == FirstTruthy(<<Get(r.asset), Get(r.asset_id), Get(r.assetId),
                               Get(r.outcome)>>)
    IN  IF ts.err # None \/ size.err # None \/ price.err # None THEN Rejected
        \* line 540: size <= 0 or price <= 0 or price > 1
        ELSE IF Le(size, 0) \/ Le(price, 0) \/ Gt(price, 100) THEN Rejected
        ELSE IF side.err # None THEN Raised(side.err)
        ELSE IF side.v \notin {"BUY", "SELL"} THEN Rejected
        ELSE [kind |-> "trade", timestamp |-> ts,
              market |-> StrOrUnknown(market), asset |-> StrOrUnknown(asset),
              side |-> side.v, size |-> size, price |-> price]

\* The records of the model: a well-formed trade with every combination of
\* timestamp, size, price and side values; a well-formed trade under every
\* combination of the alternative field names; and an element of the
\* trades list that is no object.
RawRecords ==
    LET TsValues == {Absent, Null, Num(0), Num(1), Iso(2), Str("soon"), NaN}
        SizeValues == {Absent, Null, Num(0), Num(0 - 500), Num(1000),
                       NumStr(1000), Str("ten"), NaN}
        PriceValues == {Absent, Num(0), Num(40), NumStr(40), Num(100),
                        Num(101), NaN}
        SideValues == {Absent, Null, Num(1), Str("BUY"), Str("buy"),
                       Str("Sell"), Str("HOLD")}
        Dict(ts, time, createdAt, size, price, side, market, conditionId,
             marketId, asset, outcome) ==
            [t |-> "dict", timestamp |-> ts, time |-> time,
             createdAt |-> createdAt, size |-> size, price |-> price,
             side |-> side, market |-> market, conditionId |-> conditionId,
             condition_id |-> Absent, marketId |-> marketId, asset |-> asset,
             asset_id |-> Absent, assetId |-> Absent, outcome |-> outcome]
        CoreRecords ==
            { Dict(ts, Absent, Absent, size, price, side, Str("m1"), Absent,
                   Absent, Str("YES"), Absent) :
                ts \in TsValues, size \in SizeValues, price \in PriceValues,
                side \in SideValues }
        AliasRecords ==
            { Dict(ts, time, createdAt, Num(1000), Num(40), Str("BUY"),
                   market, conditionId, marketId, asset, outcome) :
                ts \in {Absent, Num(0)}, time \in {Absent, Num(1)},
                createdAt \in {Absent, Iso(2)},
                market \in {Absent, Str(""), Str("m1")},
                conditionId \in {Absent, Str("c9")},
                marketId \in {Absent, Num(7)},
                asset \in {Absent, Str("YES")},
                outcome \in {Absent, Str("No")} }
        NoObject == [t |-> "str"]
    IN  CoreRecords \cup AliasRecords \cup {NoObject}

\* normalize_trade is about to be called on some record.
InitNormalize ==
    /\ NoBeyond
    /\ NoCallers
    /\ NoTrader
    /\ LedgerAtRest
    /\ resolution_cache = << >>
    /\ groups = <<>>
    /\ pc = "idle"
    /\ raw \in RawRecords
    /\ returned = [kind |-> "uncalled"]

\* The call, from entry to return or raise.
Normalize ==
    /\ returned = [kind |-> "uncalled"]
    /\ returned' = NormalizeTrade(raw)
    /\ UNCHANGED <<beyond, raw, callers, trader, trades_df, resolution_cache, pc, groups, idx,
                   trades, pos, ledger, valuation, resolution,
                   resolution_checks_done, outputs>>

NextNormalize == Normalize

SpecNormalize == InitNormalize /\ [][NextNormalize]_vars

\* ------------------------------------------------------------------ C15
\* The call has ended.
Normalized == returned # [kind |-> "uncalled"]

\* C15: normalize_trade ends, for every raw record, by returning a trade
\* or None and never by raising, and every trade it returns has size > 0,
\* 0 < price <= 1 and side BUY or SELL.
C15_TradeOrNone ==
    Normalized =>
        /\ returned.kind \in {"trade", "None"}
        /\ returned.kind = "trade" =>
               /\ Gt(returned.size, 0)
               /\ Gt(returned.price, 0)
               /\ Le(returned.price, 100)
               /\ returned.side \in {"BUY", "SELL"}

\* The same without the records the code mishandles: those whose side is
\* present and no string, whose size or price is NaN, and list elements
\* that are no object.
C15_TradeOrNoneOnPlainRecords ==
    (Normalized /\ raw.t = "dict" /\ GetOr(raw.side, Str("")).t = "str"
        /\ raw.size # NaN /\ raw.price # NaN)
    => C15_TradeOrNone

\* ========================================================= analyze_trader
\* Thresholds of the CONFIG section in the units analyze_trader is modelled
\* in: prices and money in cents, the win rate in percent, the ROI in
\* 1/10000, the score in 1/100 point.
MIN_TRADES == 10
MIN_WIN_RATE == 50
MIN_MARKETS == 3
MAX_AVG_TRADE_SIZE == 500000
MAX_AVG_BUY_PRICE == 98
MIN_ROI == 500
MIN_SCORE == 500

\* ---------------------------------------------------------- the traders
\* One trade of a history: 10 or 20 shares of a token at a price in cents.
Deal(key, side, size, price) ==
    [key |-> key, side |-> side, size |-> size, price |-> price]

\* Eleven trades in chronological order, over three markets: ten shares of
\* m1/YES bought at 0.40 and held, and round trips bought at 0.40 and sold
\* at p2 (m2/111, twice), p3 (m3/No, twice) and p1 (m1/no, 20 shares).
History(p1, p2, p3) ==
    << Deal(<<"m1", "YES">>, "BUY", 1000, 40),
       Deal(<<"m2", "111">>, "BUY", 1000, 40),
       Deal(<<"m2", "111">>, "SELL", 1000, p2),
       Deal(<<"m3", "No">>, "BUY", 1000, 40),
       Deal(<<"m3", "No">>, "SELL", 1000, p3),
       Deal(<<"m2", "111">>, "BUY", 1000, 40),
       Deal(<<"m2", "111">>, "SELL", 1000, p2),
       Deal(<<"m3", "No">>, "BUY", 1000, 40),
       Deal(<<"m3", "No">>, "SELL", 1000, p3),
       Deal(<<"m1", "no">>, "BUY", 2000, 40),
       Deal(<<"m1", "no">>, "SELL", 2000, p1) >>

\* Ten gaps in seconds between consecutive trades: v of 5 seconds, then r
\* of 30 seconds, the others of an hour.
Gaps(v, r) ==
    [i \in 1..10 |-> IF i <= v THEN 5 ELSE IF i <= v + r THEN 30 ELSE 3600]

\* The trade list of a history, newest trade first: the raw record of every
\* trade as the data API spells it, trade i at the time the gaps put it.
RawTrades(history, gaps) ==
    LET FirstTrade == 1000000
        Stamp(i) == FirstTrade + SumSeq(SubSeq(gaps, 1, i - 1))
        RawTrade(deal, ts) ==
            [t |-> "dict", timestamp |-> Num(ts), time |-> Absent,
             createdAt |-> Absent, size |-> Num(deal.size),
             price |-> Num(deal.price), side |-> Str(deal.side),
             market |-> Str(deal.key[1]), conditionId |-> Absent,
             condition_id |-> Absent, marketId |-> Absent,
             asset |-> Str(deal.key[2]), asset_id |-> Absent,
             assetId |-> Absent, outcome |-> Absent]
    IN  [i \in 1..Len(history) |->
            RawTrade(history[Len(history) + 1 - i],
                     Stamp(Len(history) + 1 - i))]

\* Variations of a trade list: records i and j are replaced by one with
\* price 0 and one with side HOLD (both invalid), or record i by one whose
\* side is null.
WithInvalid(list, i, j) ==
    [list EXCEPT ![i] = [@ EXCEPT !.price = Num(0)],
                 ![j] = [@ EXCEPT !.side = Str("HOLD")]]
WithNullSide(list, i) == [list EXCEPT ![i] = [@ EXCEPT !.side = Null]]

Plain == RawTrades(History(70, 70, 40), Gaps(0, 0))

\* The traders of the model.
TraderInputs ==
    LET \* The selling prices of the round trips: a loss, break-even, two
        \* gains.
        SellPrices == {30, 40, 50, 70}
        \* (v, r) of the gaps: around the 10% and 30% marks of ten gaps.
        GapCounts ==
            {<<0, 0>>, <<0, 1>>, <<0, 2>>, <<0, 3>>, <<0, 4>>, <<1, 0>>,
             <<2, 0>>, <<1, 1>>, <<1, 3>>}
        \* Variations of a history.
        Recast(history, change(_)) ==
            [i \in DOMAIN history |-> change(history[i])]
        OnTwoMarkets(d) ==
            IF d.key[1] = "m3" THEN [d EXCEPT !.key = <<"m2", "111">>] ELSE d
        AtScalperPrice(d) ==
            IF d.side = "BUY" THEN [d EXCEPT !.price = 99] ELSE d
        AllSells(d) == [d EXCEPT !.side = "SELL"]
        AtWhaleSize(d) == [d EXCEPT !.size = 2000 * @]
        Unlabelled(d) ==
            IF d.key = <<"m1", "YES">>
            THEN [d EXCEPT !.key = <<"unknown", "Yes">>] ELSE d
        \* Every combination of selling prices, evenly spaced.
        PricedTrades ==
            { RawTrades(History(p1, p2, p3), Gaps(0, 0)) :
                p1 \in {40, 70}, p2 \in SellPrices, p3 \in {40, 70} }
        \* One profitable history under every gap pattern.
        PacedTrades ==
            { RawTrades(History(70, 70, 40), Gaps(g[1], g[2])) :
                g \in GapCounts }
        \* Histories the cheap filters reject, alone and in pairs, a
        \* history whose BUY records all have the size NaN, and histories
        \* holding a record normalize_trade raises on.
        OddTrades ==
            { WithInvalid(Plain, 1, 2),
              WithInvalid(RawTrades(Recast(History(70, 70, 40), OnTwoMarkets),
                                    Gaps(0, 0)), 1, 2),
              RawTrades(Recast(History(70, 70, 40), OnTwoMarkets), Gaps(0, 0)),
              RawTrades(Recast(History(70, 70, 40), AtScalperPrice),
                        Gaps(0, 0)),
              RawTrades(Recast(History(70, 70, 40), AllSells), Gaps(0, 0)),
              RawTrades(Recast(History(70, 70, 40), AtWhaleSize), Gaps(0, 0)),
              RawTrades(Recast(Recast(History(70, 70, 40), AtWhaleSize),
                               AtScalperPrice), Gaps(0, 0)),
              [i \in DOMAIN Plain |->
                  IF Plain[i].side = Str("BUY")
                  THEN [Plain[i] EXCEPT !.size = NaN] ELSE Plain[i]],
              WithNullSide(Plain, 1),
              WithNullSide(WithInvalid(Plain, 1, 2), 3) }
        \* Histories that hold two tokens of one market at the end (the
        \* last sale has not happened), or a token of a market without id.
        HeldTrades ==
            { RawTrades(SubSeq(History(70, 70, 40), 1, 10), Gaps(0, 0)),
              RawTrades(Recast(History(70, 70, 40), Unlabelled), Gaps(0, 0)) }
    IN  PricedTrades \cup PacedTrades \cup OddTrades \cup HeldTrades

\* The newest timestamp of a trade list.
Newest(list) == list[1].timestamp.v

\* What time.time() reads: the trader's last trade is of this moment, or
\* ten half-lives of the recency weight old.
HalfLife == 30 * 86400
Clocks(list) == {Newest(list), Newest(list) + 10 * HalfLife}

\* ------------------------------------------------------ the computations
\* line 788: pd.DataFrame(normalized).  nan names the cells of the row that
\* hold NaN.
DataFrame(list) ==
    [i \in DOMAIN list |->
        [market |-> list[i].market, asset |-> list[i].asset,
         side |-> list[i].side, size |-> list[i].size.v,
         price |-> list[i].price.v, timestamp |-> list[i].timestamp.v,
         nan |-> {c \in {"size", "price"} : list[i][c].nan}]]

\* Money of the ledger (1/10000 dollar) in cents; the histories trade whole
\* shares at whole cents, so nothing is lost.
Cents(x) == x \div 100

Max(a, b) == IF a >= b THEN a ELSE b

\* df['market'].nunique()
NUnique(df) == Cardinality({ df[i].market : i \in DOMAIN df })

\* df[df['side'] == 'BUY']
Buys(df) == SelectSeq(df, LAMBDA r : r.side = "BUY")

\* The values of df['size'] * df['price'] that are numbers: sum(), mean()
\* and median() of a Series skip NaN.
TradeValues(df) ==
    LET numbers == SelectSeq(df, LAMBDA r : r.nan = {})
    IN  [i \in DOMAIN numbers |-> Cents(numbers[i].size * numbers[i].price)]

\* mean() > limit over the values that are numbers; the mean of none is
\* NaN, and NaN > limit is false.
MeanAbove(xs, limit) == SumSeq(xs) > limit * Len(xs)

\* line 798: the mean buy price is above the ceiling; 1.0 without a BUY.
BuyPriceAbove(df, limit) ==
    LET priced == SelectSeq(Buys(df), LAMBDA r : "price" \notin r.nan)
    IN  IF Buys(df) = <<>> THEN 100 > limit
        ELSE MeanAbove([i \in DOMAIN priced |-> priced[i].price], limit)

\* line 815: (buys['size'] * buys['price']).sum(); the sum of none is 0.
CapitalDeployed(df) == SumSeq(TradeValues(Buys(df)))

\* market_pnl.values(), in insertion order
Results == [i \in 1..Len(groups) |-> market_results[groups[i]]]
Pnls == [i \in DOMAIN Results |-> Cents(Results[i].total_pnl)]

\* line 836 counting every market.
TotalDecidedAll == Len(Pnls)

\* lines 834-836
ProfitableMarkets == Cardinality({ i \in DOMAIN Pnls : Pnls[i] > 0 })
LosingMarkets == Cardinality({ i \in DOMAIN Pnls : Pnls[i] < 0 })
TotalDecided == ProfitableMarkets + LosingMarkets

\* win_rate >= pct / 100, for total_decided > 0
WinRateAtLeast(pct) == ProfitableMarkets * 100 >= pct * TotalDecided

\* line 851
TotalPnl == SumSeq(Pnls)

\* lines 860-866: the ROI floor by the win rate, in 1/10000.
EffectiveMinRoi ==
    IF WinRateAtLeast(90) THEN 0
    ELSE IF WinRateAtLeast(80) THEN MIN_ROI \div 4
    ELSE IF WinRateAtLeast(70) THEN MIN_ROI \div 2
    ELSE MIN_ROI

\* line 868: roi < effective_min_roi, with roi = total_pnl / capital_deployed
RoiBelow(floor) == TotalPnl * 10000 < floor * CapitalDeployed(trades_df)

\* line 874 with the decided markets only.
MarketReturnsDecided == SelectSeq(Pnls, LAMBDA x : x # 0)

\* line 874: the total_pnl of every market with trade_count > 0
MarketReturns ==
    LET traded == SelectSeq(Results, LAMBDA m : m.trade_count > 0) IN
    [i \in DOMAIN traded |-> Cents(traded[i].total_pnl)]

\* lines 876-881: np.mean(xs) / np.std(xs), or 0 for fewer than two values
\* or a standard deviation of 0.  With n values of sum S and sum of squares
\* Q, mean / std = S / sqrt(n * Q - S * S): the ratio is kept as S and the
\* radicand.
Sharpe(xs) ==
    LET n == Len(xs)
        S == SumSeq(xs)
        Q == SumSeq([i \in DOMAIN xs |-> xs[i] * xs[i]])
    IN  IF n > 1 /\ n * Q - S * S > 0
        THEN [num |-> S, radicand |-> n * Q - S * S]
        ELSE [num |-> 0, radicand |-> 1]

\* The ratio in 1/100, to the precision of a whole square root.
SharpeCenti(sh) ==
    LET ISqrt(x) ==
            CHOOSE r \in 0..5000 : r * r <= x /\ x < (r + 1) * (r + 1)
    IN  IF sh.num = 0 THEN 0 ELSE (100 * sh.num) \div ISqrt(sh.radicand)

\* line 892: df['timestamp'].sort_values().values
SortedTimestamps(df) ==
    SortSeq([i \in DOMAIN df |-> df[i].timestamp], LAMBDA a, b : a < b)

\* np.diff
Diff(xs) == [i \in 1..(Len(xs) - 1) |-> xs[i + 1] - xs[i]]

\* int(np.sum(time_gaps < limit))
GapsUnder(time_gaps, limit) ==
    Cardinality({ i \in DOMAIN time_gaps : time_gaps[i] < limit })

\* lines 908-913 with >= for >.
LatencyRiskAtLeast(df) ==
    LET time_gaps == Diff(SortedTimestamps(df))
        n == Len(time_gaps)
        rapid == IF Len(df) > 1 THEN GapsUnder(time_gaps, 60) ELSE 0
        very_rapid == IF Len(df) > 1 THEN GapsUnder(time_gaps, 10) ELSE 0
    IN  IF very_rapid * 10 >= n \/ rapid * 10 >= 3 * n THEN "HIGH"
        ELSE IF rapid * 10 >= n THEN "MEDIUM"
        ELSE "LOW"

\* lines 892-913: very_rapid_pct > 0.10 or rapid_trade_pct > 0.30 is HIGH,
\* rapid_trade_pct > 0.10 is MEDIUM; the percentages are 0 for one trade.
LatencyRisk(df) ==
    LET time_gaps == Diff(SortedTimestamps(df))
        n == Len(time_gaps)
        rapid == IF Len(df) > 1 THEN GapsUnder(time_gaps, 60) ELSE 0
        very_rapid == IF Len(df) > 1 THEN GapsUnder(time_gaps, 10) ELSE 0
    IN  IF very_rapid * 10 > n \/ rapid * 10 > 3 * n THEN "HIGH"
        ELSE IF rapid * 10 > n THEN "MEDIUM"
        ELSE "LOW"

\* line 887: days_since_active, in whole half-lives of the recency weight.
HalfLivesIdle(df) ==
    (now - SortedTimestamps(df)[Len(df)]) \div HalfLife

\* line 890: max(exp(-0.693 * days / 30), 0.05), in percent, at whole
\* half-lives.
Recency(half_lives) == Max(100 \div (2 ^ half_lives), 5)

\* trade_values.median()
Median(xs) ==
    LET sorted == SortSeq(xs, LAMBDA a, b : a < b)
        n == Len(xs)
    IN  IF n % 2 = 1 THEN sorted[(n + 1) \div 2]
        ELSE (sorted[n \div 2] + sorted[n \div 2 + 1]) \div 2

\* math.log10(x) in 1/100, for the trade counts of the model.
Log10(x) ==
    CASE x = 11 -> 104
      [] x = 12 -> 108

\* lines 930-936: the composite score in 1/100 point.
Score(df) ==
    LET roi_pct == (TotalPnl * 10000) \div CapitalDeployed(df)
        win_pct == (ProfitableMarkets * 10000) \div TotalDecided
        sharpe == SharpeCenti(Sharpe(MarketReturns))
        roi_term == (IF roi_pct < 20000 THEN roi_pct ELSE 20000) \div 4
        win_term == win_pct \div 4
        sharpe_term == Max(sharpe, 0 - 200) * 3
        activity == (Log10(Len(df) + 1) * 225) \div 100
        followability == 3000000 \div (Median(TradeValues(df)) + 5000)
    IN  ((roi_term + win_term + sharpe_term + activity + followability)
            * Recency(HalfLivesIdle(df))) \div 100

\* lines 943-970: the metrics returned (without the annualized ROI, the
\* time spans and the rounding).
Metrics(df) ==
    [kind |-> "metrics",
     score |-> Score(df),
     roi |-> <<TotalPnl, CapitalDeployed(df)>>,
     win_rate |-> <<ProfitableMarkets, TotalDecided>>,
     sharpe |-> Sharpe(MarketReturns),
     total_pnl |-> TotalPnl,
     capital_deployed |-> CapitalDeployed(df),
     trades |-> Len(df),
     markets |-> NUnique(df),
     profitable_markets |-> ProfitableMarkets,
     losing_markets |-> LosingMarkets,
     resolution_stats |-> resolution_stats,
     current_positions |-> current_positions,
     latency_risk |-> LatencyRisk(df)]

\* ------------------------------------------------------------ the call
\* The variables of the ledger that the filters leave alone.
replay == <<idx, trades, pos, ledger, valuation, resolution,
            resolution_checks_done, outputs>>

\* analyze_trader(address, trades) is entered, in a fresh process.
InitTrader ==
    /\ NoBeyond
    /\ NoCallers
    /\ NoRecord
    /\ LedgerAtRest
    /\ resolution_cache = << >>
    /\ groups = <<>>
    /\ pc = "normalize"
    /\ raw_trades \in TraderInputs
    /\ now \in Clocks(raw_trades)
    /\ normalized = <<>>
    /\ filtered = None
    /\ metrics = [kind |-> "uncalled"]

\* `return None` of the named filter.
Reject(filter) ==
    /\ filtered' = filter
    /\ metrics' = [kind |-> "None"]
    /\ pc' = "returned"

\* The filter lets the trader through, to the next position.
Pass(next) ==
    /\ pc' = next
    /\ UNCHANGED <<filtered, metrics>>

\* lines 780-781: every record goes through normalize_trade and the None
\* results are dropped.  An exception of normalize_trade leaves
\* analyze_trader.
NormalizeTrades ==
    /\ pc = "normalize"
    /\ LET results == [i \in DOMAIN raw_trades |->
                          NormalizeTrade(raw_trades[i])] IN
           IF \E i \in DOMAIN results : results[i].kind = "raised"
           THEN /\ pc' = "aborted"
                /\ UNCHANGED normalized
           ELSE /\ pc' = "min_trades"
                /\ normalized' =
                       SelectSeq(results, LAMBDA t : t.kind = "trade")
    /\ UNCHANGED <<beyond, callers, record, raw_trades, now, filtered, metrics,
                   trades_df, resolution_cache, groups, replay>>

\* The filter that skips the trade count and builds the DataFrame.
FilterTradesSkipped ==
    /\ pc = "min_trades"
    /\ trades_df' = DataFrame(normalized)
    /\ Pass("min_markets")
    /\ UNCHANGED <<beyond, callers, record, raw_trades, now, normalized,
                   resolution_cache, groups, replay>>

\* lines 783-788: the minimum trade count, then the DataFrame.
FilterTrades ==
    /\ pc = "min_trades"
    /\ IF Len(normalized) < MIN_TRADES
       THEN Reject("min_trades") /\ UNCHANGED trades_df
       ELSE Pass("min_markets") /\ trades_df' = DataFrame(normalized)
    /\ UNCHANGED <<beyond, callers, record, raw_trades, now, normalized,
                   resolution_cache, groups, replay>>

\* lines 791-795: the minimum number of distinct markets.
FilterMarkets ==
    /\ pc = "min_markets"
    /\ IF NUnique(trades_df) < MIN_MARKETS
       THEN Reject("min_markets")
       ELSE Pass("avg_buy_price")
    /\ UNCHANGED <<beyond, callers, record, raw_trades, now, normalized, trades_df,
                   resolution_cache, groups, replay>>

\* lines 798-804: the ceiling of the average buy price.
FilterBuyPrice ==
    /\ pc = "avg_buy_price"
    /\ IF BuyPriceAbove(trades_df, MAX_AVG_BUY_PRICE)
       THEN Reject("avg_buy_price")
       ELSE Pass("avg_trade_size")
    /\ UNCHANGED <<beyond, callers, record, raw_trades, now, normalized, trades_df,
                   resolution_cache, groups, replay>>

\* lines 806-812: the ceiling of the average trade value.
FilterTradeSize ==
    /\ pc = "avg_trade_size"
    /\ IF MeanAbove(TradeValues(trades_df), MAX_AVG_TRADE_SIZE)
       THEN Reject("avg_trade_size")
       ELSE Pass("capital_deployed")
    /\ UNCHANGED <<beyond, callers, record, raw_trades, now, normalized, trades_df,
                   resolution_cache, groups, replay>>

\* lines 815-820: no capital deployed.
FilterCapital ==
    /\ pc = "capital_deployed"
    /\ IF CapitalDeployed(trades_df) <= 0
       THEN Reject("capital_deployed")
       ELSE Pass("ledger")
    /\ UNCHANGED <<beyond, callers, record, raw_trades, now, normalized, trades_df,
                   resolution_cache, groups, replay>>

\* line 831: calculate_fifo_pnl_with_resolution(df) is entered.
CallLedger ==
    /\ pc = "ledger"
    /\ groups' = GroupBy(trades_df)
    /\ pc' = "group"
    /\ UNCHANGED <<outside, trades_df, resolution_cache, replay>>

\* lines 833-848, on the ledger's return: no decided market, then the
\* minimum win rate.
FilterWinRate ==
    /\ pc = "done"
    /\ IF TotalDecided = 0 THEN Reject("total_decided")
       ELSE IF ~WinRateAtLeast(MIN_WIN_RATE) THEN Reject("win_rate")
       ELSE Pass("roi")
    /\ UNCHANGED <<beyond, callers, record, raw_trades, now, normalized, trades_df,
                   resolution_cache, groups, replay>>

\* lines 850-871: the ROI floor.
FilterRoi ==
    /\ pc = "roi"
    /\ IF RoiBelow(EffectiveMinRoi) THEN Reject("roi") ELSE Pass("score")
    /\ UNCHANGED <<beyond, callers, record, raw_trades, now, normalized, trades_df,
                   resolution_cache, groups, replay>>

\* lines 873-970: the metrics, the minimum score, and the return.
FilterScore ==
    /\ pc = "score"
    /\ IF Score(trades_df) < MIN_SCORE
       THEN Reject("score")
       ELSE /\ metrics' = Metrics(trades_df)
            /\ pc' = "returned"
            /\ UNCHANGED filtered
    /\ UNCHANGED <<beyond, callers, record, raw_trades, now, normalized, trades_df,
                   resolution_cache, groups, replay>>

NextTrader ==
    \/ NormalizeTrades
    \/ FilterTrades
    \/ FilterMarkets
    \/ FilterBuyPrice
    \/ FilterTradeSize
    \/ FilterCapital
    \/ CallLedger
    \/ StartGroup
    \/ ReplayBuy
    \/ ReplaySell
    \/ Tally
    \/ FetchSkip
    \/ FetchCached
    \/ FetchClob
    \/ FetchGamma
    \/ FetchEvents
    \/ Valuate
    \/ Emit
    \/ FilterWinRate
    \/ FilterRoi
    \/ FilterScore

SpecTrader == InitTrader /\ [][NextTrader]_vars

\* ------------------------------------------------------------ C16 .. C20
\* The DataFrame of the valid trades, built or not.
Valid == DataFrame(normalized)

\* calculate_fifo_pnl_with_resolution has been entered.
LedgerStarted == groups # <<>>

\* The ledger has returned.
LedgerDone == pc \in {"done", "roi", "score", "returned"} /\ LedgerStarted

\* The first of the filters, in the order of the claim, that the trader
\* fails; None if the trader passes them all.  The filters after the
\* ledger are read off its results.
FailsCheap ==
    \/ Len(normalized) < MIN_TRADES
    \/ NUnique(Valid) < MIN_MARKETS
    \/ BuyPriceAbove(Valid, MAX_AVG_BUY_PRICE)
    \/ MeanAbove(TradeValues(Valid), MAX_AVG_TRADE_SIZE)

FirstFailing ==
    IF Len(normalized) < MIN_TRADES THEN "min_trades"
    ELSE IF NUnique(Valid) < MIN_MARKETS THEN "min_markets"
    ELSE IF BuyPriceAbove(Valid, MAX_AVG_BUY_PRICE) THEN "avg_buy_price"
    ELSE IF MeanAbove(TradeValues(Valid), MAX_AVG_TRADE_SIZE)
         THEN "avg_trade_size"
    ELSE IF CapitalDeployed(Valid) <= 0 THEN "capital_deployed"
    ELSE IF TotalDecided = 0 \/ ~WinRateAtLeast(MIN_WIN_RATE) THEN "win_rate"
    ELSE IF RoiBelow(EffectiveMinRoi) THEN "roi"
    ELSE IF Score(Valid) < MIN_SCORE THEN "score"
    ELSE None

\* The filter of the claim's list that a `return None` belongs to: the
\* rejection for want of a decided market is the win rate's; the rejection
\* for want of capital (line 817) stands between the fourth filter and the
\* ledger and belongs to none.
FilterOf(f) == IF f = "total_decided" THEN "win_rate" ELSE f

\* C16: the filters apply in the order trade count, market count, average
\* buy price, average trade value, ledger, win rate, ROI, score; a trader
\* is rejected by the first one it fails, is returned metrics only if it
\* fails none, and the ledger (and so the resolver) is never started for a
\* trader that fails one of the first four.
C16_FilterOrder ==
    /\ LedgerStarted => ~FailsCheap
    /\ FailsCheap => resolution_checks_done = 0 /\ resolution_cache = << >>
    /\ pc = "returned" =>
           /\ FilterOf(filtered) = FirstFailing
           /\ metrics.kind = "metrics" <=> filtered = None

\* A trader above both ceilings is rejected for the average buy price,
\* and the ledger has not run.
C16_Witness ==
    /\ pc = "returned"
    /\ filtered = "avg_buy_price"
    /\ MeanAbove(TradeValues(Valid), MAX_AVG_TRADE_SIZE)
    /\ ~LedgerStarted

\* A trader that passed the first four filters and the win rate is
\* rejected for its ROI, after the ledger asked the resolver.
C16_WitnessAfterLedger ==
    /\ pc = "returned"
    /\ filtered = "roi"
    /\ resolution_checks_done > 0

\* The records of the trade list that normalize_trade accepts.
Acceptable ==
    { i \in DOMAIN raw_trades : NormalizeTrade(raw_trades[i]).kind = "trade" }

\* analyze_trader returned None.
Rejection == pc = "returned" /\ filtered # None

\* Every rejection is the return of None.
C17_RejectionIsNone == Rejection => metrics = [kind |-> "None"]

\* No exception leaves analyze_trader for a trader with too few acceptable
\* trades.
C17_NoRaiseBelowMinTrades ==
    Cardinality(Acceptable) < MIN_TRADES => pc # "aborted"

\* C17: a trader that fails a filter is returned a typed ineligible result
\* that names the failed filter and the measured value, and no exception
\* is raised for such a trader.
C17_TypedRejection ==
    /\ Rejection =>
           /\ metrics.kind = "ineligible"
           /\ metrics.filter = filtered
    /\ C17_NoRaiseBelowMinTrades

\* The MarketResults by their total P&L.
Won == { k \in DOMAIN market_results : market_results[k].total_pnl > 0 }
Lost == { k \in DOMAIN market_results : market_results[k].total_pnl < 0 }
Even == { k \in DOMAIN market_results : market_results[k].total_pnl = 0 }

\* C18: the win rate is the number of MarketResults with totalPnl > 0 over
\* the number with totalPnl # 0, those with totalPnl = 0 counting in
\* neither; it is what the minimum win rate is held against; and a trader
\* without a MarketResult of totalPnl # 0 is rejected, nothing is divided.
C18_WinRate ==
    /\ metrics.kind = "metrics" =>
           metrics.win_rate =
               <<Cardinality(Won), Cardinality(Won) + Cardinality(Lost)>>
    /\ filtered = "win_rate" =>
           /\ Won \cup Lost # {}
           /\ Cardinality(Won) * 100
                  < MIN_WIN_RATE * (Cardinality(Won) + Cardinality(Lost))
    /\ (LedgerDone /\ pc # "done" /\ Won \cup Lost = {}) =>
           /\ filtered = "total_decided"
           /\ metrics = [kind |-> "None"]
    /\ (LedgerDone /\ pc \in {"roi", "score"}) =>
           Cardinality(Won) * 100
               >= MIN_WIN_RATE * (Cardinality(Won) + Cardinality(Lost))

\* Metrics of a trader with one market won, one lost and two even: the
\* win rate is 1/2.
C18_Witness ==
    /\ metrics.kind = "metrics"
    /\ metrics.win_rate = <<1, 2>>
    /\ Cardinality(Even) = 2

\* A trader whose four markets all broke even is rejected.
C18_WitnessNoneDecided ==
    /\ Rejection
    /\ Cardinality(Even) = 4
    /\ filtered = "total_decided"

\* Sum, and sum of squares, of the total P&L (in cents) of a set of
\* MarketResults.
RECURSIVE PnlSum(_)
PnlSum(keys) ==
    IF keys = {} THEN 0
    ELSE LET k == CHOOSE x \in keys : TRUE IN
         Cents(market_results[k].total_pnl) + PnlSum(keys \ {k})
RECURSIVE PnlSquares(_)
PnlSquares(keys) ==
    IF keys = {} THEN 0
    ELSE LET k == CHOOSE x \in keys : TRUE IN
         Cents(market_results[k].total_pnl) * Cents(market_results[k].total_pnl)
             + PnlSquares(keys \ {k})

\* n * n times the variance of the total P&L over all MarketResults.
Spread ==
    Cardinality(DOMAIN market_results) * PnlSquares(DOMAIN market_results)
        - PnlSum(DOMAIN market_results) * PnlSum(DOMAIN market_results)

\* mean / standard deviation over all MarketResults, as sum and radicand.
MeanOverDeviation ==
    [num |-> PnlSum(DOMAIN market_results), radicand |-> Spread]
NoSharpe == [num |-> 0, radicand |-> 1]

\* C19 as stated: the Sharpe-like score is 0 whenever fewer than 2 markets
\* are decided (totalPnl # 0) or the per-market totalPnl have zero
\* variance, and the mean over the standard deviation otherwise.
C19_SharpeOverDecided ==
    metrics.kind = "metrics" =>
        metrics.sharpe =
            IF Cardinality(Won \cup Lost) < 2 \/ Spread = 0 THEN NoSharpe
            ELSE MeanOverDeviation

\* C19, amended: the Sharpe-like score is 0 whenever the trader has fewer
\* than 2 MarketResults or their totalPnl have zero variance, and otherwise
\* the mean over the (population) standard deviation of the totalPnl of
\* all MarketResults, those with totalPnl = 0 included.
C19_SharpeOverAll ==
    metrics.kind = "metrics" =>
        metrics.sharpe =
            IF Cardinality(DOMAIN market_results) < 2 \/ Spread = 0
            THEN NoSharpe
            ELSE MeanOverDeviation

\* Metrics of a trader with one decided market out of four: the score is
\* not 0.
C19_Witness ==
    /\ metrics.kind = "metrics"
    /\ Cardinality(Won \cup Lost) = 1
    /\ Cardinality(Even) = 3
    /\ metrics.sharpe.num # 0

\* Metrics of a trader whose four markets made the same gain: zero
\* variance, score 0.
C19_WitnessNoVariance ==
    /\ metrics.kind = "metrics"
    /\ Cardinality(Won) = 4
    /\ Spread = 0
    /\ metrics.sharpe = NoSharpe

\* The timestamps of the valid trades, and the pairs of consecutive ones.
Times == { normalized[i].timestamp.v : i \in DOMAIN normalized }
Consecutive ==
    { g \in Times \X Times :
        g[1] < g[2] /\ ~\E t \in Times : g[1] < t /\ t < g[2] }
Under(seconds) ==
    Cardinality({ g \in Consecutive : g[2] - g[1] < seconds })

\* C20: the latency risk is HIGH if more than 10% of the gaps between
\* consecutive trades are under 10 seconds or more than 30% are under 60
\* seconds, otherwise MEDIUM if more than 10% are under 60 seconds,
\* otherwise LOW.
C20_LatencyRisk ==
    metrics.kind = "metrics" =>
        metrics.latency_risk =
            IF Under(10) * 100 > 10 * Cardinality(Consecutive)
                   \/ Under(60) * 100 > 30 * Cardinality(Consecutive)
            THEN "HIGH"
            ELSE IF Under(60) * 100 > 10 * Cardinality(Consecutive)
            THEN "MEDIUM"
            ELSE "LOW"

\* Exactly 30% of the gaps are under 60 seconds, none under 10: MEDIUM.
C20_Witness ==
    /\ metrics.kind = "metrics"
    /\ Cardinality(Consecutive) = 10
    /\ Under(60) = 3
    /\ Under(10) = 0
    /\ metrics.latency_risk = "MEDIUM"

\* Exactly 10% of the gaps are under 10 seconds, no other under 60: LOW.
C20_WitnessLow ==
    /\ metrics.kind = "metrics"
    /\ Cardinality(Consecutive) = 10
    /\ Under(60) = 1
    /\ Under(10) = 1
    /\ metrics.latency_risk = "LOW"

\* More than 10% of the gaps are under 10 seconds: HIGH.
C20_WitnessHigh ==
    /\ metrics.kind = "metrics"
    /\ Under(10) = 2
    /\ metrics.latency_risk = "HIGH"

\* ============================================== analyze_trader, run again
\* run_leaderboard_analysis (line 1453) and analyze_single_address (line
\* 1399) call analyze_trader one trader after the other in one process:
\* _resolution_cache lives on between the calls, the clock moves on or
\* reads the same.
MaxAnalyses == 3

\* The traders of the process: one holding m1/YES at the end, one holding
\* m1/YES and m1/no, and one whose held token came without a market id.
RerunInputs ==
    {Plain, RawTrades(SubSeq(History(70, 70, 40), 1, 10), Gaps(0, 0)),
     [Plain EXCEPT ![Len(Plain)] =
                       [@ EXCEPT !.market = Absent, !.asset = Str("Yes")]]}

InitRerun ==
    /\ NoBeyond
    /\ NoCallers
    /\ NoRecord
    /\ LedgerAtRest
    /\ resolution_cache = << >>
    /\ groups = <<>>
    /\ pc = "normalize"
    /\ raw_trades \in RerunInputs
    /\ now \in Clocks(Plain)
    /\ normalized = <<>>
    /\ filtered = None
    /\ metrics = [kind |-> "uncalled"]

\* analyze_trader has returned and is called again: its locals are new,
\* the cache is what the calls before left.
AnalyzeNext ==
    /\ pc = "returned"
    /\ Len(completed) < MaxAnalyses - 1
    /\ completed' = Append(completed, [trades |-> raw_trades, now |-> now,
                                       metrics |-> metrics])
    /\ raw_trades' \in RerunInputs
    /\ now' \in {c \in Clocks(Plain) : c >= now}
    /\ normalized' = <<>>
    /\ filtered' = None
    /\ metrics' = [kind |-> "uncalled"]
    /\ pc' = "normalize"
    /\ groups' = <<>>
    /\ trades_df' = <<>>
    /\ idx' = 0
    /\ trades' = <<>>
    /\ pos' = 0
    /\ position_queue' = <<>>
    /\ realized_pnl' = 0
    /\ total_volume' = 0
    /\ sell_remaining' = 0
    /\ sell_revenue' = 0
    /\ sell_cost' = 0
    /\ remaining_shares' = 0
    /\ remaining_cost' = 0
    /\ unrealized_pnl' = 0
    /\ position_status' = "open"
    /\ resolution' = NoResolution
    /\ resolution_checks_done' = 0
    /\ resolution_stats' = [resolved_won |-> 0, resolved_lost |-> 0,
                            unresolved |-> 0, unknown |-> 0]
    /\ current_positions' = <<>>
    /\ market_results' = << >>
    /\ UNCHANGED <<callers, record, resolution_cache, profile, rec, retries,
                   attempt, response, slept, api_result>>

NextRerun ==
    \/ NextTrader
    \/ AnalyzeNext

SpecRerun == InitRerun /\ [][NextRerun]_vars

\* ------------------------------------------------------------------ C21
\* The analyze_trader calls of the process that have returned, the one
\* that has just returned included.
Ended ==
    IF pc = "returned"
    THEN Append(completed, [trades |-> raw_trades, now |-> now,
                            metrics |-> metrics])
    ELSE completed

C21_WitnessClock ==
    /\ Len(Ended) >= 2
    /\ Ended[1].trades = Ended[2].trades
    /\ Ended[1].now # Ended[2].now
    /\ Ended[1].metrics.kind = "metrics"
    /\ Ended[2].metrics # Ended[1].metrics

\* ================================================= recommend_copy_strategy
\* Units: avg_trade and fixed sizes in 1/1000 $, portfolio_balance and
\* capital_deployed in $, win_rate in percent, sharpe in 1/100.  A
\* proportional size is the exact ratio [num, den].

\* The metrics and balances of the model: every latency risk, trades from
\* half a cent to $2000 around 40% of the balance, win rates and Sharpe
\* ratios on both sides of every threshold, and capital around 0.5 and 2
\* times the balance.
Profiles ==
    [latency_risk : {"LOW", "MEDIUM", "HIGH"},
     avg_trade : {5, 500, 3000, 50000, 60000, 61000, 2000000},
     win_rate : {45, 50, 52, 53, 55, 56, 60, 61, 65, 70, 71, 75},
     sharpe : {0 - 50, 0, 1, 50, 51, 100, 101},
     capital_deployed : {0, 10, 75, 76, 299, 300, 301, 7500, 50000},
     trades : {10, 600},
     active_days : {30},
     portfolio_balance : {150}]
    \cup
    [latency_risk : {"LOW", "HIGH"},
     avg_trade : {5, 500, 3000, 50000},
     win_rate : {50, 65},
     sharpe : {0, 101},
     capital_deployed : {10, 1000},
     trades : {10},
     active_days : {30},
     portfolio_balance : {10}]

\* Step 1, lines 1009-1019: the order type of a latency risk.
OrderType(latency_risk) ==
    CASE latency_risk = "HIGH" -> "limit"
      [] latency_risk = "MEDIUM" -> "hybrid"
      [] OTHER -> "market"

\* size_pct without the test win_rate > 0.5 of lines 1037 and 1062.
SizePctUnguarded(win_rate) == 500 + (win_rate - 50) * 40

\* lines 1036-1040 and 1061-1065: size_pct, in 1/10000.
SizePct(win_rate) ==
    IF win_rate > 50 THEN 500 + (win_rate - 50) * 40 ELSE 500

\* Step 2, lines 1021-1076: sizing method and suggested size.  The ratio
\* portfolio_balance / trader_capital is compared by cross-multiplication;
\* it is 0.01 for a capital that is not positive.
Sizing(p) ==
    LET pb == p.portfolio_balance
        ratio == IF p.capital_deployed > 0
                 THEN [num |-> pb, den |-> p.capital_deployed]
                 ELSE [num |-> 1, den |-> 100]
        fixed(floor) == Max(floor, (pb * SizePct(p.win_rate)) \div 10)
    IN  IF p.avg_trade > 400 * pb
        THEN [method |-> "fixed_amount", size |-> fixed(1000),
              branch |-> "large_trade"]
        ELSE IF 2 * ratio.num > ratio.den /\ ratio.num < 2 * ratio.den
        THEN [method |-> "pct_of_trade",
              size |-> IF ratio.num >= ratio.den
                       THEN [num |-> 1, den |-> 1] ELSE ratio,
              branch |-> "similar"]
        ELSE IF 2 * ratio.num < ratio.den
        THEN IF p.avg_trade * ratio.num < 2000 * ratio.den
             THEN [method |-> "fixed_amount", size |-> fixed(2000),
                   branch |-> "dust"]
             ELSE [method |-> "pct_of_trade", size |-> ratio,
                   branch |-> "scaled_down"]
        ELSE [method |-> "fixed_amount",
              size |-> IF p.avg_trade < 50 * pb THEN p.avg_trade
                       ELSE 50 * pb,
              branch |-> "match"]

\* Step 3 with the $1 minimum for market orders alone.
OrderMinimumMarketOnly(order_type, sizing) ==
    IF order_type = "market" /\ sizing.method = "fixed_amount"
       /\ sizing.size < 1000
    THEN [size |-> 1000, raised |-> TRUE]
    ELSE [size |-> IF order_type = "limit"
                      /\ sizing.method = "fixed_amount" /\ sizing.size < 10
                   THEN 10 ELSE sizing.size,
          raised |-> FALSE]

\* Step 3, lines 1078-1088: the minimum of the order type, for fixed
\* amounts only, and whether the $1 minimum was applied.
OrderMinimum(order_type, sizing) ==
    IF order_type = "limit"
    THEN [size |-> IF sizing.method = "fixed_amount" /\ sizing.size < 10
                   THEN 10 ELSE sizing.size,
          raised |-> FALSE]
    ELSE IF sizing.method = "fixed_amount" /\ sizing.size < 1000
         THEN [size |-> 1000, raised |-> TRUE]
         ELSE [size |-> sizing.size, raised |-> FALSE]

\* Step 4 with the win-rate rule first.
MaxPositionPctWinRateFirst(sharpe, win_rate) ==
    IF win_rate > 70 THEN 30
    ELSE IF sharpe > 100 /\ win_rate > 60 THEN 25
    ELSE IF sharpe > 50 /\ win_rate > 55 THEN 15
    ELSE IF sharpe > 0 /\ win_rate > 52 THEN 10
    ELSE 5

\* Step 4, lines 1090-1104: max_position_pct.
MaxPositionPct(sharpe, win_rate) ==
    IF sharpe > 100 /\ win_rate > 60 THEN 25
    ELSE IF win_rate > 70 THEN 30
    ELSE IF sharpe > 50 /\ win_rate > 55 THEN 15
    ELSE IF sharpe > 0 /\ win_rate > 52 THEN 10
    ELSE 5

\* Step 7 recommending compounding for every trader.
CompoundingForAll(win_rate, sharpe, portfolio_balance) ==
    [recommended |-> TRUE,
     params |-> [base_size |-> portfolio_balance * 30,
                 reinvestment_rate |-> 40,
                 profit_tier_increment |-> 25,
                 size_increase_per_tier |-> 20,
                 max_size_multiplier |-> 3,
                 drawdown_halve_threshold |-> 20,
                 drawdown_reset_threshold |-> 40,
                 drawdown_pause_threshold |-> 60]]

\* Step 7, lines 1136-1183: whether compounding is recommended, and its
\* parameters: base size in 1/1000 $, rates and thresholds in percent, the
\* tier in $.
Compounding(win_rate, sharpe, portfolio_balance) ==
    IF win_rate >= 60 /\ sharpe > 0
    THEN LET tier == IF win_rate >= 75 THEN <<5, 60, 15, 30, 5>>
                     ELSE IF win_rate >= 65 THEN <<4, 50, 20, 25, 4>>
                     ELSE <<3, 40, 25, 20, 3>>
         IN  [recommended |-> TRUE,
              params |-> [base_size |-> portfolio_balance * tier[1] * 10,
                          reinvestment_rate |-> tier[2],
                          profit_tier_increment |-> tier[3],
                          size_increase_per_tier |-> tier[4],
                          max_size_multiplier |-> tier[5],
                          drawdown_halve_threshold |-> 20,
                          drawdown_reset_threshold |-> 40,
                          drawdown_pause_threshold |-> 60]]
    ELSE [recommended |-> FALSE, params |-> <<>>]

\* recommend_copy_strategy(metrics, portfolio_balance).  The warnings are
\* named by what they are about; expected_trades_per_day and
\* expected_capital_usage, rounded figures for display, are left out.
RecommendCopyStrategy(p) ==
    LET \* a / b > c / d, for b and d positive
        Above(a, b, c, d) ==
            IF a \div b # c \div d THEN a \div b > c \div d
            ELSE (a % b) * d > (c % d) * b
        order_type == OrderType(p.latency_risk)
        sizing == Sizing(p)
        final == OrderMinimum(order_type, sizing)
        max_position_pct == MaxPositionPct(p.sharpe, p.win_rate)
        \* Step 5, lines 1106-1121: daily_capital > portfolio_balance * 0.5
        high_usage ==
            /\ p.active_days > 0
            /\ IF sizing.method = "fixed_amount"
               THEN 2 * p.trades * final.size
                        > 1000 * p.portfolio_balance * p.active_days
               ELSE Above(2 * p.trades * p.avg_trade, final.size.den,
                          1000 * p.portfolio_balance * p.active_days,
                          final.size.num)
        \* Step 6, lines 1123-1134
        primary_strategy ==
            CASE order_type = "hybrid" -> "adaptive"
              [] order_type = "limit" /\ sizing.method = "fixed_amount" ->
                     "limit_fixed"
              [] order_type = "limit" -> "limit_proportional"
              [] sizing.method = "fixed_amount" -> "market_fixed"
              [] OTHER -> "market_proportional"
        compounding == Compounding(p.win_rate, p.sharpe, p.portfolio_balance)
    IN  [kind |-> "rec",
         primary_strategy |-> primary_strategy,
         order_type |-> order_type,
         sizing_method |-> sizing.method,
         sizing_branch |-> sizing.branch,
         suggested_size |-> final.size,
         max_position_pct |-> max_position_pct,
         warnings |->
             (IF order_type = "limit" THEN {"fills"} ELSE {})
             \cup (IF final.raised THEN {"minimum"} ELSE {})
             \cup (IF max_position_pct = 5 THEN {"conservative"} ELSE {})
             \cup (IF high_usage THEN {"usage"} ELSE {}),
         compounding_recommended |-> compounding.recommended,
         compounding_params |-> compounding.params]

\* recommend_copy_strategy is about to be called.
InitRecommend ==
    /\ NoCallers
    /\ NoRecord
    /\ NoTrader
    /\ LedgerAtRest
    /\ resolution_cache = << >>
    /\ groups = <<>>
    /\ pc = "idle"
    /\ completed = <<>>
    /\ profile \in Profiles
    /\ rec = [kind |-> "uncalled"]
    /\ retries = 0
    /\ attempt = 0
    /\ response = None
    /\ slept = 0
    /\ api_result = [kind |-> "uncalled"]

\* The call, from entry to `return rec`.
Recommend ==
    /\ rec = [kind |-> "uncalled"]
    /\ rec' = RecommendCopyStrategy(profile)
    /\ UNCHANGED <<callers, record, trader, completed, profile, retries,
                   attempt, response, slept, api_result, trades_df,
                   resolution_cache, pc, groups, idx, trades, pos, ledger,
                   valuation, resolution, resolution_checks_done, outputs>>

SpecRecommend == InitRecommend /\ [][Recommend]_vars

\* ------------------------------------------------------------------ C22
\* recommend_copy_strategy has returned.
Recommended == rec.kind = "rec"

\* The trader's average trade is above 40% of the portfolio balance.
LargeTrade == profile.avg_trade > 400 * profile.portfolio_balance

\* balanceRatio = portfolioBalance / capitalDeployed is above, or below,
\* n / 2, for a positive capitalDeployed.
RatioAbove(n) == 2 * profile.portfolio_balance > n * profile.capital_deployed
RatioBelow(n) == 2 * profile.portfolio_balance < n * profile.capital_deployed

\* portfolioBalance x (0.05 + max(0, winRate - 0.5) x 0.4), in 1/1000 $.
BySizePct ==
    LET over == IF profile.win_rate > 50 THEN profile.win_rate - 50 ELSE 0
    IN  (profile.portfolio_balance * (500 + over * 40)) \div 10

\* A fixed amount after the minimum of the order type: $0.01 for limit
\* orders, $1 for market and hybrid orders.
AtLeastMinimum(size) ==
    IF profile.latency_risk = "HIGH" THEN Max(10, size) ELSE Max(1000, size)

\* The sizing the ratio rules give a trader whose average trade is not
\* large, the ratio 0.5 counted with the rule named.
SizingByRatio(half) ==
    LET pb == profile.portfolio_balance
        cap == profile.capital_deployed
        similar == RatioAbove(1) /\ RatioBelow(4)
        small == RatioBelow(1) \/ (half = "small" /\ 2 * pb = cap)
    IN  IF similar
        THEN /\ rec.sizing_method = "pct_of_trade"
             /\ rec.suggested_size = IF pb >= cap THEN [num |-> 1, den |-> 1]
                                     ELSE [num |-> pb, den |-> cap]
        ELSE IF small
        THEN IF profile.avg_trade * pb < 2000 * cap
             THEN /\ rec.sizing_method = "fixed_amount"
                  /\ rec.suggested_size = AtLeastMinimum(Max(2000, BySizePct))
             ELSE /\ rec.sizing_method = "pct_of_trade"
                  /\ rec.suggested_size = [num |-> pb, den |-> cap]
        ELSE /\ rec.sizing_method = "fixed_amount"
             /\ rec.suggested_size =
                    AtLeastMinimum(IF profile.avg_trade < 50 * pb
                                   THEN profile.avg_trade ELSE 50 * pb)

\* C22: for a trader whose average trade is at most 40% of the portfolio
\* balance, the sizing follows balanceRatio, first match: between 0.5 and
\* 2.0 proportional with min(1, ratio); at most 0.5 proportional with the
\* ratio, or the fixed amount with floor $2 when avgTrade x ratio < $2;
\* otherwise the fixed amount min(avgTrade, 5% of the balance).
C22_SizingByRatio ==
    (Recommended /\ ~LargeTrade /\ profile.capital_deployed > 0)
    => SizingByRatio("small")

\* What the code does: the ratio 0.5 itself goes with the ratios of 2.0
\* and above.
C22_SizingByRatioHalfAsLarge ==
    (Recommended /\ ~LargeTrade /\ profile.capital_deployed > 0)
    => SizingByRatio("large")

\* ------------------------------------------------------------------ C23
\* C23: for a trader whose average trade is above 40% of the portfolio
\* balance the sizing is the fixed amount
\* max($1, portfolioBalance x (0.05 + max(0, winRate - 0.5) x 0.4)),
\* whatever the balance ratio.
C23_LargeTradeFixed ==
    (Recommended /\ LargeTrade)
    => /\ rec.sizing_method = "fixed_amount"
       /\ rec.suggested_size = Max(1000, BySizePct)

\* The example of the specification: avgTrade 2000, balance 150, win rate
\* 0.65 give the fixed amount 16.50.
C23_Witness ==
    /\ Recommended
    /\ profile.avg_trade = 2000000
    /\ profile.portfolio_balance = 150
    /\ profile.win_rate = 65
    /\ rec.sizing_method = "fixed_amount"
    /\ rec.suggested_size = 16500

\* A large trade against a small balance: the $1 floor decides.
C23_WitnessFloor ==
    /\ Recommended
    /\ LargeTrade
    /\ BySizePct < 1000
    /\ rec.suggested_size = 1000

\* ------------------------------------------------------------------ C24
\* C24: a fixed amount is at least $0.01 under limit orders and at least
\* $1 under market and hybrid orders, and the minimum-size warning is
\* given exactly when the $1 minimum changed the size.
C24_OrderMinimum ==
    (Recommended /\ rec.sizing_method = "fixed_amount")
    => /\ rec.order_type = "limit" => rec.suggested_size >= 10
       /\ rec.order_type # "limit" => rec.suggested_size >= 1000
       /\ "minimum" \in rec.warnings
              <=> (rec.order_type # "limit" /\ Sizing(profile).size < 1000)

\* Matching a trader's 50-cent trades with market or hybrid orders: raised
\* to $1, with the warning.
C24_Witness ==
    /\ Recommended
    /\ rec.order_type \in {"market", "hybrid"}
    /\ rec.sizing_method = "fixed_amount"
    /\ Sizing(profile).size = 500
    /\ rec.suggested_size = 1000
    /\ "minimum" \in rec.warnings

\* Matching half-cent trades with limit orders: raised to $0.01.
C24_WitnessLimit ==
    /\ Recommended
    /\ rec.order_type = "limit"
    /\ rec.sizing_method = "fixed_amount"
    /\ Sizing(profile).size = 5
    /\ rec.suggested_size = 10
    /\ "minimum" \notin rec.warnings

\* ------------------------------------------------------------------ C25
\* C25: maxPositionPct is 25 for sharpe > 1.0 and winRate > 0.6, else 30
\* for winRate > 0.7, else 15 for sharpe > 0.5 and winRate > 0.55, else 10
\* for sharpe > 0 and winRate > 0.52, else 5; the conservative-sizing
\* warning is given exactly with 5.
C25_MaxPosition ==
    Recommended
    => /\ rec.max_position_pct =
              CASE profile.sharpe > 100 /\ profile.win_rate > 60 -> 25
                [] ~(profile.sharpe > 100) /\ profile.win_rate > 70 -> 30
                [] profile.sharpe > 50 /\ profile.win_rate > 55
                   /\ ~(profile.sharpe > 100 /\ profile.win_rate > 60)
                   /\ ~(profile.win_rate > 70) -> 15
                [] profile.sharpe > 0 /\ profile.win_rate > 52
                   /\ ~(profile.sharpe > 50 /\ profile.win_rate > 55)
                   /\ ~(profile.win_rate > 70) -> 10
                [] OTHER -> 5
       /\ "conservative" \in rec.warnings <=> rec.max_position_pct = 5

\* The order of the rules decides: a trader above 70% with a Sharpe above
\* 1.0 gets 25, not 30.
C25_Witness ==
    /\ Recommended
    /\ profile.sharpe > 100
    /\ profile.win_rate > 70
    /\ rec.max_position_pct = 25

\* Every value is given.
C25_WitnessAll ==
    /\ Recommended
    /\ rec.max_position_pct = 30

C25_WitnessConservative ==
    /\ Recommended
    /\ rec.max_position_pct = 5
    /\ profile.win_rate = 52
    /\ profile.sharpe = 101
    /\ "conservative" \in rec.warnings

\* ------------------------------------------------------------------ C26
\* The compounding parameters of a tier: base size in percent of the
\* balance, reinvestment in percent, profit tier in $, size increase in
\* percent, size cap, and the three drawdown thresholds in percent.
Tier(base, reinvest, tier, increase, cap) ==
    [base_size |-> profile.portfolio_balance * base * 10,
     reinvestment_rate |-> reinvest,
     profit_tier_increment |-> tier,
     size_increase_per_tier |-> increase,
     max_size_multiplier |-> cap,
     drawdown_halve_threshold |-> 20,
     drawdown_reset_threshold |-> 40,
     drawdown_pause_threshold |-> 60]

\* C26: compounding is recommended iff winRate >= 0.60 and sharpe > 0; its
\* parameters are those of the tier of the win rate (from 0.75, from 0.65,
\* below) with drawdown thresholds 0.20 / 0.40 / 0.60, and empty when it
\* is not recommended.
C26_Compounding ==
    Recommended
    => /\ rec.compounding_recommended
              <=> (profile.win_rate >= 60 /\ profile.sharpe > 0)
       /\ ~rec.compounding_recommended => rec.compounding_params = <<>>
       /\ rec.compounding_recommended =>
              rec.compounding_params =
                  IF profile.win_rate >= 75 THEN Tier(5, 60, 15, 30, 5)
                  ELSE IF profile.win_rate >= 65 THEN Tier(4, 50, 20, 25, 4)
                  ELSE Tier(3, 40, 25, 20, 3)

\* A trader at exactly 60% with a positive Sharpe gets the lowest tier.
C26_Witness ==
    /\ Recommended
    /\ profile.win_rate = 60
    /\ profile.sharpe = 1
    /\ rec.compounding_recommended
    /\ rec.compounding_params.base_size = 30 * profile.portfolio_balance

C26_WitnessTiers ==
    /\ Recommended
    /\ profile.win_rate = 75
    /\ rec.compounding_recommended
    /\ rec.compounding_params.max_size_multiplier = 5

C26_WitnessNot ==
    /\ Recommended
    /\ profile.win_rate = 75
    /\ profile.sharpe = 0
    /\ ~rec.compounding_recommended

\* ------------------------------------------------------------------ C27
\* The next row of the group is being replayed.
ReplayingRow == pc = "replay" /\ pos < Len(trades) /\ pos' = pos + 1

\* C27: a SELL adds its whole revenue size x price to realizedPnl and
\* takes off the cost of the lots it consumed only, so that a SELL
\* replayed on an empty queue adds exactly size x price and leaves the
\* queue empty; a later BUY enters the queue with its whole size.
C27_OversoldSell ==
    [][ReplayingRow =>
           /\ NextRow.side = "SELL" =>
                  /\ realized_pnl' =
                         realized_pnl + NextRow.size * NextRow.price
                             - (QueueCost(position_queue)
                                    - QueueCost(position_queue'))
                  /\ position_queue = <<>> =>
                         /\ realized_pnl' =
                                realized_pnl + NextRow.size * NextRow.price
                         /\ position_queue' = <<>>
           /\ NextRow.side = "BUY" =>
                  /\ QueueShares(position_queue') =
                         QueueShares(position_queue) + NextRow.size
                  /\ realized_pnl' = realized_pnl]_vars

\* A SELL on an empty queue, then a BUY: the revenue of the SELL is the
\* realized P&L, and the BUY is held whole.
C27_Witness ==
    /\ pc = "replay"
    /\ pos = 2
    /\ Replayed[1].side = "SELL"
    /\ Replayed[2].side = "BUY"
    /\ realized_pnl = Replayed[1].size * Replayed[1].price
    /\ QueueShares(position_queue) = Replayed[2].size

\* ------------------------------------------------------------------ C28
\* The groups emitted with more than the dust held, and those of them
\* with the given status.
MaterialGroups ==
    {k \in DOMAIN market_results : market_results[k].position > DUST}
WithStatus(status) ==
    {k \in DOMAIN market_results :
        market_results[k].position_status = status}

\* C28: when calculate_fifo_pnl_with_resolution has returned, the four
\* counters of resolution_stats add up to the number of groups that held
\* more than 0.01 share, each such group is in the counter of its status,
\* resolved_won and resolved_lost are the numbers of MarketResults with
\* status won and lost, and unresolved is the number of CurrentPositions.
C28_TallyMatchesResults ==
    pc = "done" =>
        /\ resolution_stats.resolved_won + resolution_stats.resolved_lost
               + resolution_stats.unresolved + resolution_stats.unknown
           = Cardinality(MaterialGroups)
        /\ resolution_stats.resolved_won = Cardinality(WithStatus("won"))
        /\ resolution_stats.resolved_lost = Cardinality(WithStatus("lost"))
        /\ resolution_stats.unknown = Cardinality(WithStatus("unknown"))
        /\ resolution_stats.unresolved =
               Cardinality(WithStatus("open") \cap MaterialGroups)
        /\ resolution_stats.unresolved = Len(current_positions)
        /\ WithStatus("won") \cup WithStatus("lost") \cup WithStatus("unknown")
               \subseteq MaterialGroups

\* Two groups of one market returned, the token of one has won and the
\* token of the other has lost.
C28_Witness ==
    /\ pc = "done"
    /\ Cardinality(MaterialGroups) = 2
    /\ resolution_stats.resolved_won = 1
    /\ resolution_stats.resolved_lost = 1
    /\ current_positions = <<>>

\* Two groups of a market that is still open: both are listed.
C28_WitnessOpen ==
    /\ pc = "done"
    /\ resolution_stats.unresolved = 2
    /\ Len(current_positions) = 2

\* Two groups returned, one of them without a position: it is in no
\* counter.
C28_WitnessDust ==
    /\ pc = "done"
    /\ Cardinality(DOMAIN market_results) = 2
    /\ Cardinality(MaterialGroups) = 1
    /\ resolution_stats.resolved_lost = 1

\* ------------------------------------------------------------------ C29
\* The valid trades hold no BUY.
NoBuy == Buys(Valid) = <<>>

\* Every BUY among the valid trades has the size NaN.
NanBuys ==
    /\ ~NoBuy
    /\ \A i \in DOMAIN Buys(Valid) : "size" \in Buys(Valid)[i].nan

\* What the code keeps of the claim: a trader without a BUY is rejected by
\* one of the first three filters, and the ledger is entered only with
\* capital deployed, so the ROI of line 854 has a divisor above 0.
C29_LedgerHasCapital ==
    /\ pc = "returned" /\ NoBuy =>
           filtered \in {"min_trades", "min_markets", "avg_buy_price"}
    /\ LedgerStarted => ~NoBuy /\ CapitalDeployed(Valid) > 0

\* C29: a trader whose valid trades hold no BUY is rejected before the
\* ledger, the ledger never runs with no capital deployed, and the
\* rejection for capital_deployed <= 0 is never taken.
C29_CapitalRejectionUnreachable ==
    /\ C29_LedgerHasCapital
    /\ filtered # "capital_deployed"

\* The trader whose BUYs all have the size NaN passed the four cheap
\* filters and is rejected for its capital.
C29_RejectedForCapital ==
    /\ pc = "returned"
    /\ NanBuys
    /\ filtered = "capital_deployed"
    /\ ~LedgerStarted

\* A trader that only sold is rejected for its average buy price.
C29_WitnessNoBuy ==
    /\ pc = "returned"
    /\ NoBuy
    /\ Len(normalized) >= MIN_TRADES
    /\ filtered = "avg_buy_price"

\* ---------------------------------------------------------------- api_get
\* Lines 267-306.  One step of the model is one turn of the loop of line
\* 272: the request, the branch its ending takes, and the sleep.  attempt
\* counts the requests made, so the loop variable of the turn in progress
\* is attempt before the step.
MaxRetries == 4

\* line 260, the default of `retries`
MAX_RETRIES == 3

\* How requests.get can end: a response with a status code and a body, or
\* one of the exceptions of requests.
Responses ==
    { [raises |-> None, status_code |-> 200, text |-> t] :
          t \in {"[]", "{}", "<html>"} }
    \cup { [raises |-> None, status_code |-> c, text |-> ""] :
               c \in {404, 429, 500} }
    \cup { [raises |-> e, status_code |-> 0, text |-> ""] :
               e \in {"Timeout", "ConnectionError"} }

\* response.json(): the parsed body, or the error of a body that is no
\* JSON.
Json(text) ==
    IF text = "[]" THEN [kind |-> "value", value |-> "list"]
    ELSE IF text = "{}" THEN [kind |-> "value", value |-> "dict"]
    ELSE [kind |-> "raised", error |-> "JSONDecodeError"]

InitApiGet ==
    /\ NoCallers
    /\ NoRecord
    /\ NoTrader
    /\ LedgerAtRest
    /\ resolution_cache = << >>
    /\ groups = <<>>
    /\ pc = "idle"
    /\ completed = <<>>
    /\ profile = [kind |-> "uncalled"]
    /\ rec = [kind |-> "uncalled"]
    /\ retries \in 0..MaxRetries
    /\ attempt = 0
    /\ response = None
    /\ slept = 0
    /\ api_result = [kind |-> "running"]

\* Lines 272-304, one turn of the loop.  The error of response.json() is
\* a RequestException from requests 2.27 on, which line 301 catches, and
\* a plain ValueError before, which no handler catches: either can be the
\* library at hand.
Request ==
    /\ api_result.kind = "running"
    /\ attempt < retries
    /\ attempt' = attempt + 1
    /\ \E r \in Responses, caught \in BOOLEAN :
        /\ response' = r
        /\ IF r.raises = "Timeout"
           THEN slept' = slept + 2 /\ UNCHANGED api_result
           ELSE IF r.raises # None
           THEN slept' = slept + 1 /\ UNCHANGED api_result
           ELSE IF r.status_code = 200
           THEN IF Json(r.text).kind = "value"
                THEN /\ api_result' = [kind |-> "returned",
                                       value |-> Json(r.text).value]
                     /\ UNCHANGED slept
                ELSE IF caught
                THEN slept' = slept + 1 /\ UNCHANGED api_result
                ELSE /\ api_result' = [kind |-> "raised",
                                       error |-> Json(r.text).error]
                     /\ UNCHANGED slept
           ELSE IF r.status_code = 429
           THEN slept' = slept + 2 ^ (attempt + 1) /\ UNCHANGED api_result
           ELSE IF r.status_code = 404
           THEN /\ api_result' = [kind |-> "returned", value |-> None]
                /\ UNCHANGED slept
           ELSE slept' = slept + 1 /\ UNCHANGED api_result
    /\ UNCHANGED <<callers, record, trader, completed, profile, rec, retries,
                   trades_df, resolution_cache, pc, groups, idx, trades, pos,
                   ledger, valuation, resolution, resolution_checks_done,
                   outputs>>

\* Line 306: the loop ran out.
GiveUp ==
    /\ api_result.kind = "running"
    /\ attempt >= retries
    /\ api_result' = [kind |-> "returned", value |-> None]
    /\ UNCHANGED <<callers, record, trader, completed, profile, rec, retries,
                   attempt, response, slept, trades_df, resolution_cache, pc,
                   groups, idx, trades, pos, ledger, valuation, resolution,
                   resolution_checks_done, outputs>>

NextApiGet == Request \/ GiveUp

SpecApiGet == InitApiGet /\ [][NextApiGet]_vars

\* The loop is straight-line code between its sleeps: a call that can take
\* a step takes one.
SpecApiGetFair == SpecApiGet /\ WF_vars(NextApiGet)

\* ------------------------------------------------------------------ C30
\* The step is a turn of the loop: a request was made.
Requested == attempt' = attempt + 1

\* The request of the step ended in a 429, another status that is neither
\* 200 nor 404, a timeout or a request error.
Failed ==
    \/ response'.raises # None
    \/ response'.status_code \notin {200, 404}

\* The call ended returning value.
Returns(value) == api_result' = [kind |-> "returned", value |-> value]

\* The parts of the claim that do not turn on a 200 response: at most
\* `retries` requests, None at once on a 404, another turn after a failed
\* request, and None without a request once `retries` requests were made.
Bounded ==
    /\ attempt' <= retries'
    /\ Requested /\ response'.status_code = 404 => Returns(None)
    /\ Requested /\ Failed => api_result'.kind = "running"
    /\ ~Requested /\ api_result' # api_result =>
           attempt = retries /\ Returns(None)

\* C30: api_get makes at most `retries` requests, returns the parsed body
\* on the first 200 response, returns None on a 404 without another
\* request, returns None once `retries` requests have failed, and never
\* raises.
C30_ApiGet ==
    [][/\ Bounded
       /\ api_result'.kind # "raised"
       /\ Requested /\ response'.status_code = 200 =>
              /\ api_result'.kind = "returned"
              /\ Json(response'.text) =
                     [kind |-> "value", value |-> api_result'.value]]_vars

\* What the code keeps of the claim: the same, for the 200 responses whose
\* body is JSON; a 200 response whose body is not either raises or is
\* retried after a second, as a request error is.
C30_ApiGetOnJson ==
    [][/\ Bounded
       /\ Requested /\ response'.status_code = 200 =>
              IF Json(response'.text).kind = "value"
              THEN Returns(Json(response'.text).value)
              ELSE \/ api_result'.kind = "raised"
                   \/ api_result'.kind = "running" /\ slept' = slept + 1
       /\ api_result'.kind = "raised" =>
              /\ response'.status_code = 200
              /\ Json(response'.text).kind = "raised"]_vars

\* Every call ends, returning or raising.
C30_Ends == <>(api_result.kind \in {"returned", "raised"})

\* retries = MAX_RETRIES, three 429 responses: None after 2 + 4 + 8 s.
C30_WitnessExhausted ==
    /\ retries = MAX_RETRIES
    /\ attempt = retries
    /\ response.status_code = 429
    /\ slept = 14
    /\ api_result = [kind |-> "returned", value |-> None]

\* A 200 response whose body is no JSON: the call raised.
C30_WitnessRaised ==
    /\ api_result.kind = "raised"
    /\ response.status_code = 200

\* The same response, caught: the call went on to a second 200 response
\* and returned that one's body.
C30_WitnessSecond200 ==
    /\ attempt = 2
    /\ slept = 1
    /\ response.status_code = 200
    /\ api_result = [kind |-> "returned", value |-> "dict"]

====
